---- MODULE Spec2Model ----
(***************************************************************************)
(* A model of the credential manager of gocardless-open-banking            *)
(* (src/src/auth/token-manager.ts) and of the error classifier it uses     *)
(* (src/unnamed/part_010, src/errors/api-error.ts).                        *)
(*                                                                         *)
(* JavaScript runs one task at a time: a handler runs from one suspension  *)
(* point (await) to the next without interleaving.  Every action below is  *)
(* one such run-to-suspension segment of the code.                         *)
(***************************************************************************)
EXTENDS Integers, Sequences, FiniteSets, TLC

(***************************************************************************)
(* Bounds of the model.                                                    *)
(***************************************************************************)
NumCallers == 2
MaxOps == 4
MaxTicks == 1

Callers == 1..NumCallers

(***************************************************************************)
(* Program constants.                                                      *)
(***************************************************************************)
\* token-manager.ts:46  "this.tokens.accessExpiresAt - 60000"
RefreshMargin == 60000
\* token-manager.ts:78  "response.access_expires * 1000"
MsPerSecond == 1000

\* The clock advances in steps of the refresh margin, so that the
\* comparisons of getAccessToken are also reached with equality.
TickMs == RefreshMargin

(***************************************************************************)
(* Texts.  A string is modelled by the sequence of its characters; the     *)
(* empty text also stands for an undefined one, which the code treats      *)
(* alike (body.summary || ..., body.summary?.toLowerCase() || '',          *)
(* body.detail?.match(...)).                                               *)
(***************************************************************************)
Upper == <<"A", "B", "C", "D", "E", "F", "G", "H", "I", "J", "K", "L",
           "M", "N", "O", "P", "Q", "R", "S", "T", "U", "V", "W", "X",
           "Y", "Z">>
Lower == <<"a", "b", "c", "d", "e", "f", "g", "h", "i", "j", "k", "l",
           "m", "n", "o", "p", "q", "r", "s", "t", "u", "v", "w", "x",
           "y", "z">>

\* String.prototype.toLowerCase
toLowerCase(s) ==
    [i \in 1..Len(s) |->
        IF \E k \in 1..Len(Upper) : Upper[k] = s[i]
        THEN Lower[CHOOSE k \in 1..Len(Upper) : Upper[k] = s[i]]
        ELSE s[i]]

\* sub occurs in s at position i
At(s, i, sub) ==
    i + Len(sub) - 1 <= Len(s) /\ SubSeq(s, i, i + Len(sub) - 1) = sub

\* String.prototype.includes
includes(s, sub) == \E i \in 1..Len(s) : At(s, i, sub)

\* texts of the examples
AccountNotFound == <<"A", "c", "c", "o", "u", "n", "t", " ", "n", "o",
                     "t", " ", "f", "o", "u", "n", "d">>
TransactionAccount == <<"T", "r", "a", "n", "s", "a", "c", "t", "i",
                        "o", "n", " ", "o", "f", " ", "a", "c", "c",
                        "o", "u", "n", "t">>
SubscriptionExpired == <<"S", "u", "b", "s", "c", "r", "i", "p", "t",
                         "i", "o", "n", " ", "e", "x", "p", "i", "r",
                         "e", "d">>
RateLimitExceeded == <<"R", "a", "t", "e", " ", "l", "i", "m", "i", "t",
                       " ", "e", "x", "c", "e", "e", "d", "e", "d">>
TryAgainIn60 == <<"P", "l", "e", "a", "s", "e", " ", "T", "R", "Y", " ",
                  "a", "g", "a", "i", "n", " ", "i", "n", " ", "6", "0",
                  " ", "s", "e", "c", "o", "n", "d", "s">>
TryAgainIn5 == <<"t", "r", "y", " ", "a", "g", "a", "i", "n", " ", "i",
                 "n", " ", "5", " ", "s", "e", "c", "o", "n", "d">>
TooManyRequests == <<"T", "o", "o", " ", "m", "a", "n", "y", " ", "r",
                     "e", "q", "u", "e", "s", "t", "s">>

RequisitionAgreement == <<"R", "E", "Q", "U", "I", "S", "I", "T", "I",
                          "O", "N", " ", "a", "g", "r", "e", "e", "m",
                          "e", "n", "t">>
AgreementTransaction == <<"A", "g", "r", "e", "e", "m", "e", "n", "t",
                          " ", "o", "f", " ", "T", "r", "a", "n", "s",
                          "a", "c", "t", "i", "o", "n">>
AgreementMissing == <<"a", "g", "r", "e", "e", "m", "e", "n", "t", " ",
                      "m", "i", "s", "s", "i", "n", "g">>
NotFound == <<"N", "o", "t", " ", "f", "o", "u", "n", "d">>
IpBlocked == <<"I", "P", " ", "b", "l", "o", "c", "k", "e", "d">>
AccessDenied == <<"A", "c", "c", "e", "s", "s", " ", "d", "e", "n", "i",
                  "e", "d">>
TryAgainSoon == <<"t", "r", "y", " ", "a", "g", "a", "i", "n", " ", "i",
                  "n", " ", "a", " ", "s", "e", "c", "o", "n", "d">>

\* {} : what an error body that cannot be decoded is replaced by
EmptyBody == [summary |-> <<>>, detail |-> <<>>]

(***************************************************************************)
(* Inputs: what the token endpoints may answer.                            *)
(***************************************************************************)
\* Every answer of a token endpoint carries a token of its own: the token
\* string answered by call id is modelled by the number id.
AccessOf(id) == id
RefreshOf(id) == id
NoToken == 0
\* access_expires and refresh_expires, in seconds
AccessExpiresSecs ==
    {RefreshMargin \div MsPerSecond, 2 * (RefreshMargin \div MsPerSecond)}
RefreshExpiresSecs == {0, 2 * (RefreshMargin \div MsPerSecond)}
\* statuses of a failed mint, and of a failed refresh
ErrorStatuses == {401, 500}
\* body of an error response, after  response.json().catch(() => ({})):
\* its summary and its detail, the empty text for a missing one
ErrorBodies == {EmptyBody, [summary |-> AccountNotFound, detail |-> <<>>]}

(***************************************************************************)
(* Values.                                                                 *)
(***************************************************************************)
NULL == <<>>
NoPromise == 0
Undefined == -1

\* An error: a GoCardlessAPIError (kind "api") with its fields, or another
\* Error, which has none of them.
NoError ==
    [kind |-> "none", statusCode |-> 0, code |-> "", summary |-> <<>>,
     detail |-> <<>>, meta |-> NULL]
\* an error that carries no HTTP response (network failure, timeout)
TransportError ==
    [kind |-> "transport", statusCode |-> 0, code |-> "", summary |-> <<>>,
     detail |-> <<>>, meta |-> NULL]

VARIABLES
    tokens,          \* this.tokens: NULL or <<StoredTokens>>
    refreshPromise,  \* this.refreshPromise: NoPromise or the id of a promise
    ops,             \* the token network calls issued so far, in order; the
                     \* index is the id of the promise of the async body
    callers,         \* per caller: the state of its getAccessToken() call
    now              \* Date.now()

vars == <<tokens, refreshPromise, ops, callers, now>>

(***************************************************************************)
(* api-error.ts: getErrorCode and fromResponse.                            *)
(***************************************************************************)
\* the words getErrorCode looks for, and the default texts of fromResponse
WordAccount == <<"a", "c", "c", "o", "u", "n", "t">>
WordTransaction == <<"t", "r", "a", "n", "s", "a", "c", "t", "i", "o",
                     "n">>
WordRequisition == <<"r", "e", "q", "u", "i", "s", "i", "t", "i", "o",
                     "n">>
WordAgreement == <<"a", "g", "r", "e", "e", "m", "e", "n", "t">>
WordIp == <<"i", "p">>
DefaultSummary == <<"A", "P", "I", " ", "E", "r", "r", "o", "r">>
DefaultDetail == <<"A", "n", " ", "e", "r", "r", "o", "r", " ", "o",
                   "c", "c", "u", "r", "r", "e", "d">>

\* getErrorCode looking for "transaction" before "account", and reading
\* the summary as it is
getErrorCode_TransactionFirst(statusCode, body) ==
    LET summary == body.summary
    IN  IF statusCode = 404 THEN
            IF includes(summary, WordTransaction)
            THEN "TRANSACTION_NOT_FOUND"
            ELSE IF includes(summary, WordAccount) THEN "ACCOUNT_NOT_FOUND"
            ELSE IF includes(summary, WordRequisition)
            THEN "REQUISITION_NOT_FOUND"
            ELSE IF includes(summary, WordAgreement)
            THEN "AGREEMENT_NOT_FOUND"
            ELSE "NOT_FOUND"
        ELSE IF statusCode = 429 THEN "RATE_LIMIT_EXCEEDED"
        ELSE IF statusCode = 401 THEN "AUTHENTICATION_FAILED"
        ELSE IF statusCode = 403 THEN
            IF includes(summary, WordIp) THEN "IP_NOT_WHITELISTED"
            ELSE "FORBIDDEN"
        ELSE IF statusCode = 400 THEN "VALIDATION_ERROR"
        ELSE IF statusCode = 500 THEN "INTERNAL_SERVER_ERROR"
        ELSE IF statusCode = 502 THEN "BAD_GATEWAY"
        ELSE IF statusCode = 503 THEN "SERVICE_UNAVAILABLE"
        ELSE IF statusCode = 504 THEN "GATEWAY_TIMEOUT"
        ELSE "UNKNOWN_ERROR"

getErrorCode(statusCode, body) ==
    LET summary == toLowerCase(body.summary)
    IN  IF statusCode = 404 THEN
            IF includes(summary, WordAccount) THEN "ACCOUNT_NOT_FOUND"
            ELSE IF includes(summary, WordTransaction)
            THEN "TRANSACTION_NOT_FOUND"
            ELSE IF includes(summary, WordRequisition)
            THEN "REQUISITION_NOT_FOUND"
            ELSE IF includes(summary, WordAgreement)
            THEN "AGREEMENT_NOT_FOUND"
            ELSE "NOT_FOUND"
        ELSE IF statusCode = 429 THEN "RATE_LIMIT_EXCEEDED"
        ELSE IF statusCode = 401 THEN "AUTHENTICATION_FAILED"
        ELSE IF statusCode = 403 THEN
            IF includes(summary, WordIp) THEN "IP_NOT_WHITELISTED"
            ELSE "FORBIDDEN"
        ELSE IF statusCode = 400 THEN "VALIDATION_ERROR"
        ELSE IF statusCode = 500 THEN "INTERNAL_SERVER_ERROR"
        ELSE IF statusCode = 502 THEN "BAD_GATEWAY"
        ELSE IF statusCode = 503 THEN "SERVICE_UNAVAILABLE"
        ELSE IF statusCode = 504 THEN "GATEWAY_TIMEOUT"
        ELSE "UNKNOWN_ERROR"

\* fromResponse(statusCode, body, meta): meta is NULL when not passed
fromResponse(statusCode, body, meta) ==
    [kind |-> "api",
     statusCode |-> statusCode,
     code |-> getErrorCode(statusCode, body),
     summary |-> IF body.summary # <<>> THEN body.summary
                 ELSE DefaultSummary,
     detail |-> IF body.detail # <<>> THEN body.detail ELSE DefaultDetail,
     meta |-> meta]

(***************************************************************************)
(* The promise of one async body (token-manager.ts:62-98, 116-157).        *)
(*   state  "sent"      the network call is awaited                        *)
(*          "parsing"   an HTTP error arrived, response.json() is awaited  *)
(*          "settled"   fulfilled or rejected; a settled promise keeps     *)
(*                      nothing else (SettledOp)                           *)
(*          "chained"   the body returned another promise (line 144), the  *)
(*                      promise settles as promise `next` does             *)
(*   status the HTTP status of the error answer being handled, else 0      *)
(***************************************************************************)
NewOp(kind) ==
    [kind |-> kind, state |-> "sent", status |-> 0, next |-> NoPromise]

SettledOp ==
    [kind |-> "done", state |-> "settled", status |-> 0, next |-> NoPromise]

\* the promise whose settlement settles promise id
Root(id) == IF ops[id].state = "chained" THEN ops[id].next ELSE id

Outstanding == {i \in 1..Len(ops) : ops[i].state = "sent"}
InFlight == {i \in 1..Len(ops) : ops[i].state \in {"sent", "parsing"}}

IdleCaller ==
    [state |-> "idle", op |-> NoPromise, value |-> NoToken, err |-> NoError,
     cached |-> FALSE]

(***************************************************************************)
(* JavaScript's  now >= x : false when x is undefined.                     *)
(***************************************************************************)
GE(a, b) == b # Undefined /\ a >= b

(***************************************************************************)
(* generateTokenPair, up to its first suspension (token-manager.ts:56-101) *)
(* From the marker rp and the calls os: the promise returned, the marker   *)
(* and the calls afterwards.                                               *)
(***************************************************************************)
\* generateTokenPair without the check of the marker (lines 58-60)
generateTokenPair_NoCoalesce(rp, os) ==
    [promise |-> Len(os) + 1, refreshPromise |-> Len(os) + 1,
     ops |-> Append(os, NewOp("mint"))]

generateTokenPair(rp, os) ==
    IF rp # NoPromise
    THEN [promise |-> rp, refreshPromise |-> rp, ops |-> os]
    ELSE [promise |-> Len(os) + 1, refreshPromise |-> Len(os) + 1,
          ops |-> Append(os, NewOp("mint"))]

(***************************************************************************)
(* refreshAccessToken, up to its first suspension (106-160).               *)
(***************************************************************************)
\* refreshAccessToken without the check of the marker (lines 108-110)
refreshAccessToken_NoCoalesce(rp, tk, os) ==
    IF tk = NULL
    THEN generateTokenPair(rp, os)
    ELSE [promise |-> Len(os) + 1, refreshPromise |-> Len(os) + 1,
          ops |-> Append(os, NewOp("refresh"))]

refreshAccessToken(rp, tk, os) ==
    IF rp # NoPromise
    THEN [promise |-> rp, refreshPromise |-> rp, ops |-> os]
    ELSE IF tk = NULL
    THEN generateTokenPair(rp, os)
    ELSE [promise |-> Len(os) + 1, refreshPromise |-> Len(os) + 1,
          ops |-> Append(os, NewOp("refresh"))]

(***************************************************************************)
(* The checks of getAccessToken, in order (token-manager.ts:32-51).        *)
(***************************************************************************)
\* the margin of line 46 taken in seconds and converted (60000 * 1000)
choosePath_MarginUnits(tk, t) ==
    IF tk = NULL THEN "mint"
    ELSE IF GE(t, tk[1].refreshExpiresAt) THEN "mint"
    ELSE IF GE(t, tk[1].accessExpiresAt - RefreshMargin * MsPerSecond)
    THEN "refresh"
    ELSE "cached"

\* line 41 with > for >=
choosePath_Strict(tk, t) ==
    IF tk = NULL THEN "mint"
    ELSE IF tk[1].refreshExpiresAt # Undefined /\ t > tk[1].refreshExpiresAt
    THEN "mint"
    ELSE IF GE(t, tk[1].accessExpiresAt - RefreshMargin) THEN "refresh"
    ELSE "cached"

choosePath(tk, t) ==
    IF tk = NULL THEN "mint"
    ELSE IF GE(t, tk[1].refreshExpiresAt) THEN "mint"
    ELSE IF GE(t, tk[1].accessExpiresAt - RefreshMargin) THEN "refresh"
    ELSE "cached"

(***************************************************************************)
(* Settlement of promise id (the promise returned at token-manager.ts:59,  *)
(* 100, 109, 159 and through getAccessToken): every caller awaiting it, or *)
(* awaiting a promise chained to it, gets the outcome.                     *)
(***************************************************************************)
\* a promise resolved with another promise does not follow it: only the
\* callers awaiting promise id itself get the outcome
Deliver_DirectOnly(cs, id, os, st, value, err) ==
    [c \in Callers |->
        IF cs[c].state = "waiting" /\ cs[c].op = id
        THEN [state |-> st, op |-> NoPromise, value |-> value, err |-> err,
              cached |-> FALSE]
        ELSE cs[c]]

Deliver(cs, id, os, st, value, err) ==
    [c \in Callers |->
        IF cs[c].state = "waiting"
           /\ (IF os[cs[c].op].state = "chained" THEN os[cs[c].op].next
               ELSE cs[c].op) = id
        THEN [state |-> st, op |-> NoPromise, value |-> value, err |-> err,
              cached |-> FALSE]
        ELSE cs[c]]

(***************************************************************************)
(* getAccessToken() called by caller c, up to its first suspension         *)
(* (token-manager.ts:32-51).  st holds the marker, the calls and the       *)
(* callers; the result is st after the call.                               *)
(***************************************************************************)
getAccessToken(st, c) ==
    LET path == choosePath(tokens, now)
        r == IF path = "mint"
             THEN generateTokenPair(st.refreshPromise, st.ops)
             ELSE refreshAccessToken(st.refreshPromise, tokens, st.ops)
    IN  IF path = "cached"
        THEN [st EXCEPT !.callers[c] =
                 [state |-> "resolved", op |-> NoPromise,
                  value |-> tokens[1].accessToken, err |-> NoError,
                  cached |-> TRUE]]
        ELSE [refreshPromise |-> r.refreshPromise,
              ops |-> r.ops,
              callers |-> [st.callers EXCEPT ![c] =
                 [state |-> "waiting", op |-> r.promise, value |-> NoToken,
                  err |-> NoError, cached |-> FALSE]]]

RECURSIVE getAccessTokenAll(_, _)
getAccessTokenAll(st, S) ==
    IF S = {} THEN st
    ELSE LET c == CHOOSE x \in S : \A y \in S : x <= y
         IN  getAccessTokenAll(getAccessToken(st, c), S \ {c})

(***************************************************************************)
(* The callers of S call getAccessToken() in one synchronous run, one      *)
(* after the other with no suspension in between (a single call, or        *)
(* Promise.all([m.getAccessToken(), m.getAccessToken(), ...])).            *)
(***************************************************************************)
GetAccessTokenCalls(S) ==
    /\ S # {}
    /\ \A c \in S : callers[c].state # "waiting"
    /\ LET st == getAccessTokenAll(
                     [refreshPromise |-> refreshPromise, ops |-> ops,
                      callers |-> callers], S)
       IN  /\ Len(st.ops) <= MaxOps
           /\ refreshPromise' = st.refreshPromise
           /\ ops' = st.ops
           /\ callers' = st.callers
    /\ UNCHANGED <<tokens, now>>

(***************************************************************************)
(* The finally blocks (token-manager.ts:95-97, 154-156).                   *)
(***************************************************************************)
\* the finally block left out
finallyMarker_Keep(rp) == rp

finallyMarker(rp) == NoPromise

(***************************************************************************)
(* The mint call answers 2xx: token-manager.ts:74-83, then finally (96).   *)
(***************************************************************************)
storePair(t, access, accessExpires, refresh, refreshExpires) ==
    <<[accessToken |-> access,
       accessExpiresAt |-> t + accessExpires * MsPerSecond,
       refreshToken |-> refresh,
       refreshExpiresAt |-> t + refreshExpires * MsPerSecond]>>

MintSucceed(id) ==
    /\ id \in Outstanding
    /\ ops[id].kind = "mint"
    /\ \E accessExpires \in AccessExpiresSecs,
          refreshExpires \in RefreshExpiresSecs :
          /\ tokens' = storePair(now, AccessOf(id), accessExpires,
                                 RefreshOf(id), refreshExpires)
          /\ ops' = [ops EXCEPT ![id] = SettledOp]
          /\ callers' = Deliver(callers, id, ops, "resolved",
                                tokens'[1].accessToken, NoError)
    /\ refreshPromise' = finallyMarker(refreshPromise)
    /\ UNCHANGED now

(***************************************************************************)
(* The refresh call answers 2xx: token-manager.ts:127-136, finally (155).  *)
(* {...this.tokens!, accessToken, accessExpiresAt}: spreading null gives   *)
(* an object with the two access fields only.                              *)
(***************************************************************************)
\* the refresh expiry recomputed from the refresh answer as well
updateAccess_AllExpiries(tk, t, access, accessExpires) ==
    IF tk = NULL
    THEN <<[accessToken |-> access,
            accessExpiresAt |-> t + accessExpires * MsPerSecond,
            refreshToken |-> Undefined,
            refreshExpiresAt |-> Undefined]>>
    ELSE <<[tk[1] EXCEPT !.accessToken = access,
                         !.accessExpiresAt = t + accessExpires * MsPerSecond,
                         !.refreshExpiresAt = t + accessExpires * MsPerSecond]>>

updateAccess(tk, t, access, accessExpires) ==
    IF tk = NULL
    THEN <<[accessToken |-> access,
            accessExpiresAt |-> t + accessExpires * MsPerSecond,
            refreshToken |-> Undefined,
            refreshExpiresAt |-> Undefined]>>
    ELSE <<[tk[1] EXCEPT !.accessToken = access,
                         !.accessExpiresAt = t + accessExpires * MsPerSecond]>>

RefreshSucceed(id) ==
    /\ id \in Outstanding
    /\ ops[id].kind = "refresh"
    /\ \E accessExpires \in AccessExpiresSecs :
          /\ tokens' = updateAccess(tokens, now, AccessOf(id), accessExpires)
          /\ ops' = [ops EXCEPT ![id] = SettledOp]
          /\ callers' = Deliver(callers, id, ops, "resolved",
                                tokens'[1].accessToken, NoError)
    /\ refreshPromise' = finallyMarker(refreshPromise)
    /\ UNCHANGED now

(***************************************************************************)
(* The mint call answers with an HTTP error status: the catch block awaits *)
(* response.json() (token-manager.ts:84-91).                               *)
(***************************************************************************)
MintHttpError(id) ==
    /\ id \in Outstanding
    /\ ops[id].kind = "mint"
    /\ \E status \in ErrorStatuses :
          ops' = [ops EXCEPT ![id].state = "parsing", ![id].status = status]
    /\ UNCHANGED <<tokens, refreshPromise, callers, now>>

(***************************************************************************)
(* The refresh call answers with an HTTP error status                      *)
(* (token-manager.ts:137-150).  On 401 (141-145, then 155): the marker is  *)
(* cleared, generateTokenPair() runs to its suspension, its promise is     *)
(* returned, and the finally block then runs.  Otherwise the catch block   *)
(* awaits response.json().                                                 *)
(***************************************************************************)
\* the fallback taken on every failure status
isUnauthorized_Any(status) == TRUE

isUnauthorized(status) == status = 401

\* generateTokenPair() re-entered without clearing the marker first
fallbackMint_NoRelease(rp, os) == generateTokenPair(rp, os)

fallbackMint(rp, os) == generateTokenPair(NoPromise, os)

RefreshHttpError(id) ==
    /\ id \in Outstanding
    /\ ops[id].kind = "refresh"
    /\ \E status \in ErrorStatuses :
          IF isUnauthorized(status)
          THEN LET g == fallbackMint(refreshPromise, ops)
               IN  /\ Len(g.ops) <= MaxOps
                   /\ ops' = [g.ops EXCEPT ![id].state = "chained",
                                           ![id].status = status,
                                           ![id].next = g.promise]
                   /\ refreshPromise' = finallyMarker(g.refreshPromise)
          ELSE /\ ops' = [ops EXCEPT ![id].state = "parsing",
                                     ![id].status = status]
               /\ UNCHANGED refreshPromise
    /\ UNCHANGED <<tokens, callers, now>>

(***************************************************************************)
(* The error body is read: throw fromResponse(...) (token-manager.ts:92,   *)
(* 151), then finally.                                                     *)
(***************************************************************************)
\* the catch block resolves with the stored access token instead of
\* throwing the classified error
Reject_NoRethrow(id) ==
    /\ id \in 1..Len(ops)
    /\ ops[id].state = "parsing"
    /\ callers' = Deliver(callers, id, ops, "resolved",
                          IF tokens = NULL THEN NoToken
                          ELSE tokens[1].accessToken, NoError)
    /\ ops' = [ops EXCEPT ![id] = SettledOp]
    /\ refreshPromise' = finallyMarker(refreshPromise)
    /\ UNCHANGED <<tokens, now>>

\* after a refresh 401 the failure of the fallback mint is reported as
\* the failure of the refresh
Reject_FirstError(id) ==
    /\ id \in 1..Len(ops)
    /\ ops[id].state = "parsing"
    /\ \E body \in ErrorBodies :
          callers' = Deliver(callers, id, ops, "rejected", NoToken,
              fromResponse(IF \E r \in 1..Len(ops) :
                                  ops[r].state = "chained" /\ ops[r].next = id
                           THEN 401 ELSE ops[id].status, body, NULL))
    /\ ops' = [ops EXCEPT ![id] = SettledOp]
    /\ refreshPromise' = finallyMarker(refreshPromise)
    /\ UNCHANGED <<tokens, now>>

Reject(id) ==
    /\ id \in 1..Len(ops)
    /\ ops[id].state = "parsing"
    /\ \E body \in ErrorBodies :
          callers' = Deliver(callers, id, ops, "rejected", NoToken,
                             fromResponse(ops[id].status, body, NULL))
    /\ ops' = [ops EXCEPT ![id] = SettledOp]
    /\ refreshPromise' = finallyMarker(refreshPromise)
    /\ UNCHANGED <<tokens, now>>

(***************************************************************************)
(* A call fails without a response: throw error (token-manager.ts:94,      *)
(* 153), then finally.                                                     *)
(***************************************************************************)
TransportFailure(id) ==
    /\ id \in Outstanding
    /\ ops' = [ops EXCEPT ![id] = SettledOp]
    /\ callers' = Deliver(callers, id, ops, "rejected", NoToken,
                          TransportError)
    /\ refreshPromise' = finallyMarker(refreshPromise)
    /\ UNCHANGED <<tokens, now>>

(***************************************************************************)
(* clear() (token-manager.ts:165-168).                                     *)
(***************************************************************************)
\* clear() that nulls the stored tokens only
Clear_TokensOnly ==
    /\ tokens' = NULL
    /\ UNCHANGED <<refreshPromise, ops, callers, now>>

Clear ==
    /\ tokens' = NULL
    /\ refreshPromise' = NoPromise
    /\ UNCHANGED <<ops, callers, now>>

(***************************************************************************)
(* Time passes.                                                            *)
(***************************************************************************)
Tick ==
    /\ now < MaxTicks * TickMs
    /\ now' = now + TickMs
    /\ UNCHANGED <<tokens, refreshPromise, ops, callers>>

(***************************************************************************)
(* The request executor (src/src/http/client.ts) and what it uses:         *)
(* parseRateLimitHeaders (src/src/types/rate-limit.ts) and                 *)
(* calculateBackoff (src/src/utils/backoff.ts).                            *)
(***************************************************************************)
\* Bounds of the executor model.
MaxRetriesBound == 2
MaxAttempt == 6
MaxRequests == 2

\* A string is modelled by the sequence of its characters.
Digits == <<"0", "1", "2", "3", "4", "5", "6", "7", "8", "9">>
IsDigit(ch) == \E i \in 1..Len(Digits) : Digits[i] = ch
DigitValue(ch) == (CHOOSE i \in 1..Len(Digits) : Digits[i] = ch) - 1
NaN == <<>>

\* the value of the longest prefix of digits of s, continuing from acc
RECURSIVE DigitsValue(_, _)
DigitsValue(s, acc) ==
    IF s = <<>> \/ ~IsDigit(s[1]) THEN acc
    ELSE DigitsValue(Tail(s), acc * Len(Digits) + DigitValue(s[1]))

RECURSIVE SkipSpace(_)
SkipSpace(s) == IF s # <<>> /\ s[1] = " " THEN SkipSpace(Tail(s)) ELSE s

\* Number.parseInt(s, 10): NaN, or <<n>>
parseInt(s) ==
    LET t == SkipSpace(s)
        signed == t # <<>> /\ t[1] \in {"-", "+"}
        u == IF signed THEN Tail(t) ELSE t
    IN  IF u = <<>> \/ ~IsDigit(u[1]) THEN NaN
        ELSE IF signed /\ t[1] = "-" THEN <<0 - DigitsValue(u, 0)>>
        ELSE <<DigitsValue(u, 0)>>

(***************************************************************************)
(* rate-limit.ts.  Headers are a function from the names present to their  *)
(* values; an undefined field or group is NULL, a number n is <<n>>.       *)
(***************************************************************************)
\* parseHeader taking the number 0 as no value
parseHeader_ZeroAbsent(headers, name) ==
    IF name \notin DOMAIN headers THEN NULL
    ELSE IF headers[name] = <<>> THEN NULL
    ELSE LET parsed == parseInt(headers[name])
         IN  IF parsed = NaN \/ parsed = <<0>> THEN NULL ELSE parsed

parseHeader(headers, name) ==
    IF name \notin DOMAIN headers THEN NULL
    ELSE IF headers[name] = <<>> THEN NULL
    ELSE LET parsed == parseInt(headers[name])
         IN  IF parsed = NaN THEN NULL ELSE parsed

parseRateLimitHeaders(headers) ==
    LET general ==
            [limit |-> parseHeader(headers, "x-ratelimit-limit"),
             remaining |-> parseHeader(headers, "x-ratelimit-remaining"),
             reset |-> parseHeader(headers, "x-ratelimit-reset")]
        accountSuccess ==
            [limit |->
                 parseHeader(headers, "x-ratelimit-account-success-limit"),
             remaining |->
                 parseHeader(headers, "x-ratelimit-account-success-remaining"),
             reset |->
                 parseHeader(headers, "x-ratelimit-account-success-reset")]
        hasGeneralData ==
            \E f \in {"limit", "remaining", "reset"} : general[f] # NULL
        hasAccountData ==
            \E f \in {"limit", "remaining", "reset"} : accountSuccess[f] # NULL
    IN  IF ~hasGeneralData /\ ~hasAccountData THEN NULL
        ELSE <<[general |-> IF hasGeneralData THEN <<general>> ELSE NULL,
                accountSuccess |->
                    IF hasAccountData THEN <<accountSuccess>> ELSE NULL]>>

(***************************************************************************)
(* backoff.ts: calculateBackoff.                                           *)
(***************************************************************************)
Min(a, b) == IF a <= b THEN a ELSE b

\* Math.pow(2, n) for an integer n >= 0
Pow2(n) == 2 ^ n

\* calculateBackoff without the Math.min of line 20
calculateBackoff_NoCap(attemptNumber, strategy, initialDelayMs, maxDelayMs) ==
    IF strategy = "exponential"
    THEN IF attemptNumber >= 1
         THEN initialDelayMs * Pow2(attemptNumber - 1)
         ELSE initialDelayMs \div Pow2(1 - attemptNumber)
    ELSE initialDelayMs * attemptNumber

\* For attemptNumber <= 0 the factor Math.pow(2, attemptNumber - 1) is
\* 1 / 2^(1 - attemptNumber): the product is taken as a quotient, which is
\* exact whenever the delay is a whole number of milliseconds.
calculateBackoff(attemptNumber, strategy, initialDelayMs, maxDelayMs) ==
    LET delay ==
            IF strategy = "exponential"
            THEN IF attemptNumber >= 1
                 THEN initialDelayMs * Pow2(attemptNumber - 1)
                 ELSE initialDelayMs \div Pow2(1 - attemptNumber)
            ELSE initialDelayMs * attemptNumber
    IN  Min(delay, maxDelayMs)

(***************************************************************************)
(* Inputs of the executor: the retry configurations it may be built with   *)
(* (client.ts:41-48) and what one underlying call may answer.              *)
(***************************************************************************)
RetryConfigs ==
    [maxRetries : 0..MaxRetriesBound,
     retryableStatusCodes : {{429}, {429, 503}},
     backoff : {"linear", "exponential"},
     initialDelayMs : {1000},
     maxDelayMs : {10000, 120000},
     respectRetryAfter : BOOLEAN]

\* the configuration of  new HttpClient(..., {})  (client.ts:41-48)
DefaultRetryConfig ==
    [maxRetries |-> 2,
     retryableStatusCodes |-> {429},
     backoff |-> "linear",
     initialDelayMs |-> 1000,
     maxDelayMs |-> 30000,
     respectRetryAfter |-> TRUE]

NoHeaders == <<>>
GeneralHeaders ==
    ("x-ratelimit-limit" :> <<"1", "0", "0">>)
        @@ ("x-ratelimit-remaining" :> <<"0">>)
        @@ ("x-ratelimit-reset" :> <<"a">>)
AccountHeaders ==
    ("x-ratelimit-account-success-remaining" :> <<"9">>)
InvalidHeaders == ("x-ratelimit-limit" :> <<"a">>)

\* A response: its status, its headers, whether response.json() decodes
\* its body, and the body: the summary and the detail of an error body
\* (of a body that does not decode, what its text holds), the data of a 2xx
\* body.
OkResponses ==
    {[status |-> 200, headers |-> GeneralHeaders, json |-> TRUE,
      body |-> EmptyBody, data |-> "data1"],
     [status |-> 200, headers |-> NoHeaders, json |-> TRUE,
      body |-> EmptyBody, data |-> "data2"],
     [status |-> 200, headers |-> InvalidHeaders, json |-> FALSE,
      body |-> EmptyBody, data |-> ""]}

ErrorResponses ==
    {[status |-> 404, headers |-> NoHeaders, json |-> TRUE,
      body |-> [summary |-> AccountNotFound, detail |-> <<>>],
      data |-> ""],
     [status |-> 429, headers |-> AccountHeaders, json |-> TRUE,
      body |-> [summary |-> RateLimitExceeded, detail |-> TryAgainIn60],
      data |-> ""],
     [status |-> 429, headers |-> NoHeaders, json |-> TRUE,
      body |-> [summary |-> RateLimitExceeded, detail |-> TooManyRequests],
      data |-> ""],
     [status |-> 429, headers |-> NoHeaders, json |-> TRUE,
      body |-> [summary |-> <<>>, detail |-> TryAgainIn5],
      data |-> ""],
     [status |-> 503, headers |-> GeneralHeaders, json |-> TRUE,
      body |-> [summary |-> <<>>, detail |-> TryAgainIn60],
      data |-> ""],
     [status |-> 503, headers |-> NoHeaders, json |-> FALSE,
      body |-> EmptyBody, data |-> ""],
     [status |-> 404, headers |-> NoHeaders, json |-> FALSE,
      body |-> [summary |-> AccountNotFound, detail |-> <<>>],
      data |-> ""]}

\* an underlying call that failed without a response
NoResponse ==
    [status |-> 0, headers |-> NoHeaders, json |-> FALSE,
     body |-> EmptyBody, data |-> ""]

NoResult == [kind |-> "none", value |-> "", err |-> NoError]
\* the error response.json() throws on a body it cannot decode
SyntaxError ==
    [kind |-> "syntax", statusCode |-> 0, code |-> "", summary |-> <<>>,
     detail |-> <<>>, meta |-> NULL]

VARIABLES
    retryConfig,     \* this.retryConfig
    lastRateLimit,   \* this.lastRateLimit: NULL (undefined) or <<snapshot>>
    pc,              \* where requestWithRetry is: "idle", "sent",
                     \* "decoding", "parsing", "sleeping", "returned",
                     \* "raised"
    attemptNumber,   \* the local attemptNumber
    lastError,       \* the local lastError
    exchanges,       \* the answers of the underlying calls of this request
    sleeps,          \* the arguments of the sleep() calls of this request
    result,          \* what the request returned or raised
    requests,        \* the requests started on this executor
    requestInterceptors,   \* this.requestInterceptors, by name
    responseInterceptors,  \* this.responseInterceptors, by name
    onRateLimit,     \* whether this.onRateLimit is defined
    notified,        \* the arguments of the onRateLimit calls of this
                     \* request
    hook,            \* the position in its list of the interceptor awaited
    config,          \* the local config of the beforeRequest hook: the
                     \* interceptors that have returned it, in order
    modifiedResponse,  \* the local modifiedResponse of the afterResponse
                     \* hook: the interceptors that have returned it
    steps,           \* what this attempt has done so far, in order
    authorization,   \* the token of the Authorization header the hook set
                     \* last in this request (line 66), NoToken before
    sent             \* the tokens of the Authorization headers of the
                     \* underlying calls sent by this request, in order

xvars == <<retryConfig, lastRateLimit, pc, attemptNumber, lastError,
           exchanges, sleeps, result, requests, requestInterceptors,
           responseInterceptors, onRateLimit, notified, hook, config,
           modifiedResponse, steps, authorization, sent>>

VARIABLES
    fn,              \* the function last called on its own, "" for none
    args,            \* the arguments of that call (for a method, the error
                     \* it is called on); before it, those of the next one
    ret              \* what that call returned

pvars == <<fn, args, ret>>

\* no function has been called on its own
NotCalled == fn = "" /\ args = NULL /\ ret = NULL

\* the executor after  new HttpClient(tokenManager, baseUrl, timeout, cfg,
\* {request: reqs, response: resps}, callback)
NewHttpClient(cfg, reqs, resps, callback) ==
    /\ retryConfig = cfg
    /\ requestInterceptors = reqs
    /\ responseInterceptors = resps
    /\ onRateLimit = callback
    /\ notified = <<>>
    /\ hook = 0
    /\ config = <<>>
    /\ modifiedResponse = <<>>
    /\ steps = <<>>
    /\ authorization = NoToken
    /\ sent = <<>>
    /\ lastRateLimit = NULL
    /\ pc = "idle"
    /\ attemptNumber = 0
    /\ lastError = NULL
    /\ exchanges = <<>>
    /\ sleeps = <<>>
    /\ result = NoResult
    /\ requests = 0

\* the manager after  new TokenManager(secretId, secretKey, baseUrl)
NewTokenManager ==
    /\ tokens = NULL
    /\ refreshPromise = NoPromise
    /\ ops = <<>>
    /\ callers = [c \in Callers |-> IdleCaller]
    /\ now = 0

Init ==
    /\ NewTokenManager
    /\ NewHttpClient(DefaultRetryConfig, <<>>, <<>>, FALSE)
    /\ NotCalled

\* a token network call answers, or the body of its error answer is read
Respond ==
    \E id \in 1..MaxOps :
        \/ MintSucceed(id)
        \/ RefreshSucceed(id)
        \/ MintHttpError(id)
        \/ RefreshHttpError(id)
        \/ Reject(id)
        \/ TransportFailure(id)

\* the manager, the executor and the functions together
allvars == <<vars, xvars, pvars>>

\* the manager in use, the executor left alone
Next ==
    \/ \E S \in SUBSET Callers : GetAccessTokenCalls(S) /\ UNCHANGED <<xvars, pvars>>
    \/ \E id \in 1..MaxOps : MintSucceed(id) /\ UNCHANGED <<xvars, pvars>>
    \/ \E id \in 1..MaxOps : RefreshSucceed(id) /\ UNCHANGED <<xvars, pvars>>
    \/ \E id \in 1..MaxOps : MintHttpError(id) /\ UNCHANGED <<xvars, pvars>>
    \/ \E id \in 1..MaxOps : RefreshHttpError(id) /\ UNCHANGED <<xvars, pvars>>
    \/ \E id \in 1..MaxOps : Reject(id) /\ UNCHANGED <<xvars, pvars>>
    \/ \E id \in 1..MaxOps : TransportFailure(id) /\ UNCHANGED <<xvars, pvars>>
    \/ Clear /\ UNCHANGED <<xvars, pvars>>
    \/ Tick /\ UNCHANGED <<xvars, pvars>>

Spec == Init /\ [][Next]_allvars

\* the manager when clear() is never called
NextNoClear ==
    \/ \E S \in SUBSET Callers : GetAccessTokenCalls(S) /\ UNCHANGED <<xvars, pvars>>
    \/ \E id \in 1..MaxOps : MintSucceed(id) /\ UNCHANGED <<xvars, pvars>>
    \/ \E id \in 1..MaxOps : RefreshSucceed(id) /\ UNCHANGED <<xvars, pvars>>
    \/ \E id \in 1..MaxOps : MintHttpError(id) /\ UNCHANGED <<xvars, pvars>>
    \/ \E id \in 1..MaxOps : RefreshHttpError(id) /\ UNCHANGED <<xvars, pvars>>
    \/ \E id \in 1..MaxOps : Reject(id) /\ UNCHANGED <<xvars, pvars>>
    \/ \E id \in 1..MaxOps : TransportFailure(id) /\ UNCHANGED <<xvars, pvars>>
    \/ Tick /\ UNCHANGED <<xvars, pvars>>

SpecNoClear == Init /\ [][NextNoClear]_allvars

\* one caller, clear() never called
NextSingle ==
    \/ GetAccessTokenCalls({1}) /\ UNCHANGED <<xvars, pvars>>
    \/ \E id \in 1..MaxOps : MintSucceed(id) /\ UNCHANGED <<xvars, pvars>>
    \/ \E id \in 1..MaxOps : RefreshSucceed(id) /\ UNCHANGED <<xvars, pvars>>
    \/ \E id \in 1..MaxOps : MintHttpError(id) /\ UNCHANGED <<xvars, pvars>>
    \/ \E id \in 1..MaxOps : RefreshHttpError(id) /\ UNCHANGED <<xvars, pvars>>
    \/ \E id \in 1..MaxOps : Reject(id) /\ UNCHANGED <<xvars, pvars>>
    \/ \E id \in 1..MaxOps : TransportFailure(id) /\ UNCHANGED <<xvars, pvars>>
    \/ Tick /\ UNCHANGED <<xvars, pvars>>

SpecSingle == Init /\ [][NextSingle]_allvars

\* every token network call settles (each is sent with timeout: 30000,
\* token-manager.ts:70, 123)
FairSpecSingle == SpecSingle /\ WF_allvars(Respond /\ UNCHANGED <<xvars, pvars>>)

\* token network call id answers, or the body of its error answer is read
RespondTo(id) ==
    \/ MintSucceed(id)
    \/ RefreshSucceed(id)
    \/ MintHttpError(id)
    \/ RefreshHttpError(id)
    \/ Reject(id)
    \/ TransportFailure(id)

\* the manager in use with clear(), every token network call settling
FairSpec ==
    Spec /\ \A id \in 1..MaxOps :
                WF_allvars(RespondTo(id) /\ UNCHANGED <<xvars, pvars>>)

TypeOK ==
    /\ refreshPromise \in 0..MaxOps
    /\ Len(ops) <= MaxOps
    /\ now \in 0..(MaxTicks * TickMs)

(***************************************************************************)
(* requestWithRetry (client.ts:157-251), one action per run from one       *)
(* await to the next.  The underlying call is this.client(url, ...) of     *)
(* line 167.                                                               *)
(***************************************************************************)
\* processRateLimitHeaders (client.ts:146-152): this.lastRateLimit after it
processRateLimitHeaders(headers, last) ==
    LET rateLimit == parseRateLimitHeaders(headers)
    IN  IF rateLimit # NULL THEN rateLimit ELSE last

\* line 150 outside the test of line 148
onRateLimitCalls_Always(headers, calls, callback) ==
    LET rateLimit == parseRateLimitHeaders(headers)
    IN  IF callback THEN Append(calls, rateLimit) ELSE calls

\* processRateLimitHeaders, line 150: the calls of this.onRateLimit after it
onRateLimitCalls(headers, calls, callback) ==
    LET rateLimit == parseRateLimitHeaders(headers)
    IN  IF rateLimit # NULL /\ callback THEN Append(calls, rateLimit)
        ELSE calls

\* the loop condition of line 165 with < for <=
enterLoop_Strict(attempt, cfg) == attempt < cfg.maxRetries

\* the loop condition of line 165
enterLoop(attempt, cfg) == attempt <= cfg.maxRetries

\* lines 180-182 reading the fields of a body that does not decode
bodyOf_Raw(r) == r.body

\* lines 180-182: response.json().catch(() => ({}))
bodyOf(r) == IF r.json THEN r.body ELSE EmptyBody

\* the length of the run of digits of s that starts at position i
RECURSIVE DigitRun(_, _)
DigitRun(s, i) ==
    IF i > Len(s) \/ ~IsDigit(s[i]) THEN 0 ELSE 1 + DigitRun(s, i + 1)

TryAgainIn == <<"t", "r", "y", " ", "a", "g", "a", "i", "n", " ", "i", "n",
                " ">>
Second == <<" ", "s", "e", "c", "o", "n", "d">>

\* detail.match(/try again in (\d+) second/i)?.[1] : the digits of the
\* first match, NULL when there is none
matchTryAgain(detail) ==
    LET low == toLowerCase(detail)
        from(i) == i + Len(TryAgainIn)
        starts == {i \in 1..Len(low) :
                      /\ At(low, i, TryAgainIn)
                      /\ DigitRun(low, from(i)) >= 1
                      /\ At(low, from(i) + DigitRun(low, from(i)), Second)}
    IN  IF starts = {} THEN NULL
        ELSE LET i == CHOOSE x \in starts : \A y \in starts : x <= y
             IN  SubSeq(detail, from(i),
                        from(i) + DigitRun(low, from(i)) - 1)

\* lines 195-201: null, or <<seconds>>
retryAfterOf(r) ==
    IF r.status = 429 /\ matchTryAgain(bodyOf(r).detail) # NULL
    THEN parseInt(matchTryAgain(bodyOf(r).detail))
    ELSE NULL

\* line 207: retryAfter ? { retryAfter } : undefined
retryAfterMeta(r) ==
    IF retryAfterOf(r) # NULL /\ retryAfterOf(r)[1] # 0
    THEN <<[retryAfter |-> retryAfterOf(r)[1]]>>
    ELSE NULL

\* lines 203-208: fromResponse is called with four arguments and has three
\* parameters (api-error.ts:57-61), so that rateLimit is its meta and the
\* fourth argument is not read
classify(r) ==
    fromResponse(r.status, bodyOf(r), parseRateLimitHeaders(r.headers))

\* lines 211-213 taken as true: every error response is slept on
shouldRetry_Always(attempt, status, cfg) == TRUE

\* lines 211-213 without the test of the attempts left
shouldRetry_NoLimit(attempt, status, cfg) ==
    status \in cfg.retryableStatusCodes

\* lines 211-213 without the test of the status
shouldRetry_AnyStatus(attempt, status, cfg) ==
    attempt < cfg.maxRetries

shouldRetry(attempt, status, cfg) ==
    attempt < cfg.maxRetries /\ status \in cfg.retryableStatusCodes

\* lines 220-236 without the cap of line 227
retryDelay_NoCap(attempt, r, cfg) ==
    IF cfg.respectRetryAfter /\ retryAfterOf(r) # NULL /\ r.status = 429
    THEN retryAfterOf(r)[1] * MsPerSecond
    ELSE calculateBackoff(attempt + 1, cfg.backoff, cfg.initialDelayMs,
                          cfg.maxDelayMs)

\* lines 220-236 with calculateBackoff(attemptNumber, ...)
retryDelay_FromZero(attempt, r, cfg) ==
    IF cfg.respectRetryAfter /\ retryAfterOf(r) # NULL /\ r.status = 429
    THEN Min(retryAfterOf(r)[1] * MsPerSecond, cfg.maxDelayMs)
    ELSE calculateBackoff(attempt, cfg.backoff, cfg.initialDelayMs,
                          cfg.maxDelayMs)

\* lines 195-236 without the two tests of the status 429 (196, 224)
retryDelay_AnyStatus(attempt, r, cfg) ==
    LET seconds == IF matchTryAgain(bodyOf(r).detail) # NULL
                   THEN parseInt(matchTryAgain(bodyOf(r).detail))
                   ELSE NULL
    IN  IF cfg.respectRetryAfter /\ seconds # NULL
        THEN Min(seconds[1] * MsPerSecond, cfg.maxDelayMs)
        ELSE calculateBackoff(attempt + 1, cfg.backoff, cfg.initialDelayMs,
                              cfg.maxDelayMs)

\* lines 220-236: the argument of sleep()
retryDelay(attempt, r, cfg) ==
    IF cfg.respectRetryAfter /\ retryAfterOf(r) # NULL /\ r.status = 429
    THEN Min(retryAfterOf(r)[1] * MsPerSecond, cfg.maxDelayMs)
    ELSE calculateBackoff(attempt + 1, cfg.backoff, cfg.initialDelayMs,
                          cfg.maxDelayMs)

Returned(value) == [kind |-> "value", value |-> value, err |-> NoError]
Raised(err) == [kind |-> "error", value |-> "", err |-> err]

\* the answer being handled
Response == exchanges[Len(exchanges)]

\* One thing an attempt does: the token is obtained, an interceptor is
\* called (name) with a descriptor or a response (arg, the interceptors
\* that have returned it), the call is sent, the snapshot is recorded, the
\* body is decoded.
Step(step, name, arg) == [step |-> step, name |-> name, arg |-> arg]
TokenStep == Step("token", "", <<>>)
SendStep == Step("send", "", <<>>)
RecordStep == Step("record", "", <<>>)
DecodeStep == Step("decode", "", <<>>)

\* get/post/put/delete: lines 162-167, up to the await of line 65 in the
\* beforeRequest hook of the first underlying call
Request ==
    /\ pc \in {"idle", "returned", "raised"}
    /\ requests < MaxRequests
    /\ requests' = requests + 1
    /\ lastError' = NULL
    /\ attemptNumber' = 0
    /\ exchanges' = <<>>
    /\ sleeps' = <<>>
    /\ notified' = <<>>
    /\ steps' = <<>>
    /\ config' = <<>>
    /\ modifiedResponse' = <<>>
    /\ hook' = 0
    /\ authorization' = NoToken
    /\ sent' = <<>>
    /\ IF enterLoop(0, retryConfig)
       THEN pc' = "auth" /\ result' = NoResult
       ELSE pc' = "raised" /\ result' = Raised(NULL)
    /\ UNCHANGED <<retryConfig, lastRateLimit, requestInterceptors,
                   responseInterceptors, onRateLimit>>

\* lines 75-77 reading the interceptors from the last to the first
interceptorAt_Reversed(list, i) == list[Len(list) + 1 - i]

\* lines 75 and 92: the i-th interceptor the for...of loop calls
interceptorAt(list, i) == list[i]

\* line 66 keeping the header of the previous attempt of the request
bearer_First(token, previous) ==
    IF previous # NoToken THEN previous ELSE token

\* line 66: request.headers.set('Authorization', `Bearer ${token}`), the
\* header being identified by its token; previous is the header the hook
\* set for the attempt before
bearer(token, previous) == token

\* the beforeRequest hook goes on once getAccessToken() has resolved with
\* token: lines 65-76, up to the call of the first request interceptor,
\* or, with none, to the end of the hook and the call itself
BeforeRequest(token) ==
    /\ pc = "auth"
    /\ config' = <<>>
    /\ authorization' = bearer(token, authorization)
    /\ IF Len(requestInterceptors) > 0
       THEN /\ pc' = "requestInterceptor"
            /\ hook' = 1
            /\ steps' = steps \o
                   <<TokenStep,
                     Step("requestInterceptor",
                          interceptorAt(requestInterceptors, 1), config')>>
            /\ UNCHANGED sent
       ELSE /\ pc' = "sent"
            /\ hook' = 0
            /\ steps' = steps \o <<TokenStep, SendStep>>
            /\ sent' = Append(sent, authorization')
    /\ UNCHANGED <<retryConfig, lastRateLimit, attemptNumber, lastError,
                   exchanges, sleeps, result, requests, requestInterceptors,
                   responseInterceptors, onRateLimit, notified,
                   modifiedResponse>>

\* a request interceptor returns: lines 75-83, up to the call of the next
\* one, or, after the last, to the call itself
RequestInterceptorReturns ==
    /\ pc = "requestInterceptor"
    /\ config' = Append(config, interceptorAt(requestInterceptors, hook))
    /\ IF hook < Len(requestInterceptors)
       THEN /\ pc' = "requestInterceptor"
            /\ hook' = hook + 1
            /\ steps' = Append(steps,
                   Step("requestInterceptor",
                        interceptorAt(requestInterceptors, hook + 1),
                        config'))
            /\ UNCHANGED sent
       ELSE /\ pc' = "sent"
            /\ hook' = 0
            /\ steps' = Append(steps, SendStep)
            /\ sent' = Append(sent, authorization)
    /\ UNCHANGED <<retryConfig, lastRateLimit, attemptNumber, lastError,
                   exchanges, sleeps, result, requests, requestInterceptors,
                   responseInterceptors, onRateLimit, notified,
                   modifiedResponse, authorization>>

\* lines 173-175: what the attempt does once the call has returned
afterClient(log) == log \o <<RecordStep, DecodeStep>>

\* the underlying call is over with response r, log being what the
\* attempt has done: lines 167-175 for a 2xx answer, lines 176-182 for
\* the HTTPError of any other
Received(r, log) ==
    IF r \in OkResponses
    THEN /\ lastRateLimit' = processRateLimitHeaders(r.headers, lastRateLimit)
         /\ notified' = onRateLimitCalls(r.headers, notified, onRateLimit)
         /\ steps' = afterClient(log)
         /\ pc' = "decoding"
    ELSE /\ steps' = Append(log, DecodeStep)
         /\ pc' = "parsing"
         /\ UNCHANGED <<lastRateLimit, notified>>

\* the call is answered by r: with response interceptors, lines 89-93 up
\* to the call of the first (the afterResponse hook exists only then,
\* line 87); with none, the call is over
Answer(r) ==
    /\ pc = "sent"
    /\ exchanges' = Append(exchanges, r)
    /\ modifiedResponse' = <<>>
    /\ IF Len(responseInterceptors) > 0
       THEN /\ pc' = "responseInterceptor"
            /\ hook' = 1
            /\ steps' = Append(steps,
                   Step("responseInterceptor",
                        interceptorAt(responseInterceptors, 1),
                        modifiedResponse'))
            /\ UNCHANGED <<lastRateLimit, notified>>
       ELSE /\ hook' = 0
            /\ Received(r, steps)
    /\ UNCHANGED <<retryConfig, attemptNumber, lastError, sleeps, result,
                   requests, requestInterceptors, responseInterceptors,
                   onRateLimit, config, authorization, sent>>

\* the call answers 2xx
Answer2xx == \E r \in OkResponses : Answer(r)

\* the call answers another status
AnswerHttpError == \E r \in ErrorResponses : Answer(r)

\* a response interceptor returns: lines 92-95, up to the call of the next
\* one, or, after the last, the call is over
ResponseInterceptorReturns ==
    /\ pc = "responseInterceptor"
    /\ modifiedResponse' =
           Append(modifiedResponse,
                  interceptorAt(responseInterceptors, hook))
    /\ IF hook < Len(responseInterceptors)
       THEN /\ pc' = "responseInterceptor"
            /\ hook' = hook + 1
            /\ steps' = Append(steps,
                   Step("responseInterceptor",
                        interceptorAt(responseInterceptors, hook + 1),
                        modifiedResponse'))
            /\ UNCHANGED <<lastRateLimit, notified>>
       ELSE /\ hook' = 0
            /\ Received(Response, steps)
    /\ UNCHANGED <<retryConfig, attemptNumber, lastError, exchanges, sleeps,
                   result, requests, requestInterceptors,
                   responseInterceptors, onRateLimit, config, authorization,
                   sent>>

\* response.json() settles: line 175, or its error through line 245
Decode ==
    /\ pc = "decoding"
    /\ IF Response.json
       THEN pc' = "returned" /\ result' = Returned(Response.data)
       ELSE pc' = "raised" /\ result' = Raised(SyntaxError)
    /\ UNCHANGED <<retryConfig, lastRateLimit, attemptNumber, lastError,
                   exchanges, sleeps, requests, requestInterceptors,
                   responseInterceptors, onRateLimit, notified, hook, config,
                   modifiedResponse, steps, authorization, sent>>

\* line 203 keeping the error of the first response
assignLastError_First(old, new) == IF old = NULL THEN new ELSE old

\* line 203: lastError = GoCardlessAPIError.fromResponse(...)
assignLastError(old, new) == new

\* the error body is read: lines 188-239, up to the throw or the sleep
HandleHttpError ==
    /\ pc = "parsing"
    /\ lastRateLimit' = processRateLimitHeaders(Response.headers,
                                                lastRateLimit)
    /\ notified' = onRateLimitCalls(Response.headers, notified, onRateLimit)
    /\ steps' = Append(steps, RecordStep)
    /\ lastError' = assignLastError(lastError, classify(Response))
    /\ IF ~shouldRetry(attemptNumber, Response.status, retryConfig)
       THEN /\ pc' = "raised"
            /\ result' = Raised(lastError')
            /\ UNCHANGED sleeps
       ELSE /\ pc' = "sleeping"
            /\ sleeps' = Append(sleeps, retryDelay(attemptNumber, Response,
                                                   retryConfig))
            /\ UNCHANGED result
    /\ UNCHANGED <<retryConfig, attemptNumber, exchanges, requests,
                   requestInterceptors, responseInterceptors, onRateLimit,
                   hook, config, modifiedResponse, authorization, sent>>

\* sleep() is over: lines 240-241, then 165-167, or 250
Wake ==
    /\ pc = "sleeping"
    /\ attemptNumber' = attemptNumber + 1
    /\ IF enterLoop(attemptNumber', retryConfig)
       THEN pc' = "auth" /\ steps' = <<>> /\ UNCHANGED result
       ELSE pc' = "raised" /\ result' = Raised(lastError) /\ UNCHANGED steps
    /\ UNCHANGED <<retryConfig, lastRateLimit, lastError, exchanges, sleeps,
                   requests, requestInterceptors, responseInterceptors,
                   onRateLimit, notified, hook, config, modifiedResponse,
                   authorization, sent>>

\* the call fails with the transport error itself
ClientFailure_Classified ==
    /\ pc = "sent"
    /\ exchanges' = Append(exchanges, NoResponse)
    /\ pc' = "raised"
    /\ result' = Raised(classify(NoResponse))
    /\ UNCHANGED <<retryConfig, lastRateLimit, attemptNumber, lastError,
                   sleeps, requests, requestInterceptors,
                   responseInterceptors, onRateLimit, notified, hook, config,
                   modifiedResponse, steps, authorization, sent>>

\* the call fails without a response (network failure, timeout): line 245
ClientFailure ==
    /\ pc = "sent"
    /\ exchanges' = Append(exchanges, NoResponse)
    /\ pc' = "raised"
    /\ result' = Raised(TransportError)
    /\ UNCHANGED <<retryConfig, lastRateLimit, attemptNumber, lastError,
                   sleeps, requests, requestInterceptors,
                   responseInterceptors, onRateLimit, notified, hook, config,
                   modifiedResponse, steps, authorization, sent>>

\* the token of a manager that answers every getAccessToken() call with
\* the same token (mockResolvedValue('test-access-token'))
MockToken == MaxOps + 1

\* the executor built with any retry configuration
InitExecutor ==
    /\ NewTokenManager
    /\ \E cfg \in RetryConfigs, callback \in BOOLEAN :
          NewHttpClient(cfg, <<>>, <<>>, callback)
    /\ NotCalled

\* the executor in use, the manager left alone
NextExecutor ==
    \/ Request /\ UNCHANGED <<vars, pvars>>
    \/ BeforeRequest(MockToken) /\ UNCHANGED <<vars, pvars>>
    \/ Answer2xx /\ UNCHANGED <<vars, pvars>>
    \/ Decode /\ UNCHANGED <<vars, pvars>>
    \/ AnswerHttpError /\ UNCHANGED <<vars, pvars>>
    \/ HandleHttpError /\ UNCHANGED <<vars, pvars>>
    \/ Wake /\ UNCHANGED <<vars, pvars>>
    \/ ClientFailure /\ UNCHANGED <<vars, pvars>>

SpecExecutor == InitExecutor /\ [][NextExecutor]_allvars

\* the interceptor lists an executor may be built with
RequestInterceptorLists == {<<>>, <<"r1">>, <<"r1", "r2">>}
ResponseInterceptorLists == {<<>>, <<"s1">>, <<"s1", "s2">>}

\* the executor built with any interceptors
InitInterceptors ==
    /\ NewTokenManager
    /\ \E reqs \in RequestInterceptorLists,
          resps \in ResponseInterceptorLists, callback \in BOOLEAN :
          NewHttpClient(DefaultRetryConfig, reqs, resps, callback)
    /\ NotCalled

NextInterceptors ==
    \/ Request /\ UNCHANGED <<vars, pvars>>
    \/ BeforeRequest(MockToken) /\ UNCHANGED <<vars, pvars>>
    \/ RequestInterceptorReturns /\ UNCHANGED <<vars, pvars>>
    \/ Answer2xx /\ UNCHANGED <<vars, pvars>>
    \/ AnswerHttpError /\ UNCHANGED <<vars, pvars>>
    \/ ResponseInterceptorReturns /\ UNCHANGED <<vars, pvars>>
    \/ Decode /\ UNCHANGED <<vars, pvars>>
    \/ HandleHttpError /\ UNCHANGED <<vars, pvars>>
    \/ Wake /\ UNCHANGED <<vars, pvars>>
    \/ ClientFailure /\ UNCHANGED <<vars, pvars>>

SpecInterceptors == InitInterceptors /\ [][NextInterceptors]_allvars

(***************************************************************************)
(* The executor with its token manager: the beforeRequest hook of every    *)
(* underlying call awaits this.tokenManager.getAccessToken() (client.ts:   *)
(* 65).  The hook is caller HookCaller of the manager; the other callers   *)
(* are other users of the same manager.                                    *)
(***************************************************************************)
HookCaller == 1

\* the retry configuration of this executor: the default one, with the
\* failure statuses of the token endpoint retryable as well
ClientRetryConfig ==
    [DefaultRetryConfig EXCEPT !.retryableStatusCodes = {429} \cup ErrorStatuses]

\* the answers of the API to this executor: a 2xx body, a 429 and a 404,
\* none with rate-limit headers
ClientOkResponses ==
    {r \in OkResponses : r.json /\ r.headers = NoHeaders}
ClientErrorResponses ==
    {r \in ErrorResponses :
        r.json /\ r.headers = NoHeaders /\ matchTryAgain(r.body.detail) = NULL}

\* the call answers 2xx, or another status
ClientAnswer2xx == \E r \in ClientOkResponses : Answer(r)
ClientAnswerHttpError == \E r \in ClientErrorResponses : Answer(r)

InitClient ==
    /\ NewTokenManager
    /\ NewHttpClient(ClientRetryConfig, <<>>, <<>>, FALSE)
    /\ NotCalled

\* the hook's getAccessToken() call of the attempt that begins
HookCalls == GetAccessTokenCalls({HookCaller})

\* get/post/put/delete with the manager: lines 162-167 and, in the hook of
\* the first underlying call, line 65 up to the await
RequestWithToken == Request /\ HookCalls

\* sleep() is over, with the manager: the next underlying call, if there is
\* one, runs its hook up to the await of line 65
WakeWithToken ==
    /\ Wake
    /\ IF pc' = "auth" THEN HookCalls ELSE UNCHANGED vars

\* the await of line 65 resolves: the hook goes on with the token
TokenResolved ==
    /\ callers[HookCaller].state = "resolved"
    /\ BeforeRequest(callers[HookCaller].value)
    /\ callers' = [callers EXCEPT ![HookCaller] = IdleCaller]
    /\ UNCHANGED <<tokens, refreshPromise, ops, now>>

\* line 178 true of every error that has a status code
hasResponse_Classified(err) == err.statusCode # 0

\* line 178: error instanceof Error && 'response' in error, for the error
\* getAccessToken() rejected with: a GoCardlessAPIError (api-error.ts:6-52)
\* or a transport error, neither of which has a response property
hasResponse(err) == err.kind = "http"

\* the await of line 65 rejects: the underlying call rejects with that
\* error before anything is sent, and the catch of lines 176-246 handles it
TokenRejected ==
    /\ pc = "auth"
    /\ callers[HookCaller].state = "rejected"
    /\ LET error == callers[HookCaller].err
       IN  IF hasResponse(error)
           THEN /\ lastError' = assignLastError(lastError, error)
                /\ IF ~shouldRetry(attemptNumber, error.statusCode,
                                   retryConfig)
                   THEN /\ pc' = "raised"
                        /\ result' = Raised(lastError')
                        /\ UNCHANGED sleeps
                   ELSE /\ pc' = "sleeping"
                        /\ sleeps' = Append(sleeps,
                               calculateBackoff(attemptNumber + 1,
                                                retryConfig.backoff,
                                                retryConfig.initialDelayMs,
                                                retryConfig.maxDelayMs))
                        /\ UNCHANGED result
           ELSE /\ pc' = "raised"
                /\ result' = Raised(error)
                /\ UNCHANGED <<lastError, sleeps>>
    /\ callers' = [callers EXCEPT ![HookCaller] = IdleCaller]
    /\ UNCHANGED <<retryConfig, lastRateLimit, attemptNumber, exchanges,
                   requests, requestInterceptors, responseInterceptors,
                   onRateLimit, notified, hook, config, modifiedResponse,
                   steps, authorization, sent>>
    /\ UNCHANGED <<tokens, refreshPromise, ops, now>>

\* another user of the manager calls getAccessToken()
OtherCalls ==
    \E c \in Callers \ {HookCaller} : GetAccessTokenCalls({c})

NextClient ==
    \/ RequestWithToken /\ UNCHANGED pvars
    \/ TokenResolved /\ UNCHANGED pvars
    \/ TokenRejected /\ UNCHANGED pvars
    \/ ClientAnswer2xx /\ UNCHANGED <<vars, pvars>>
    \/ Decode /\ UNCHANGED <<vars, pvars>>
    \/ ClientAnswerHttpError /\ UNCHANGED <<vars, pvars>>
    \/ HandleHttpError /\ UNCHANGED <<vars, pvars>>
    \/ WakeWithToken /\ UNCHANGED pvars
    \/ ClientFailure /\ UNCHANGED <<vars, pvars>>
    \/ OtherCalls /\ UNCHANGED <<xvars, pvars>>
    \/ \E id \in 1..MaxOps : MintSucceed(id) /\ UNCHANGED <<xvars, pvars>>
    \/ \E id \in 1..MaxOps : RefreshSucceed(id) /\ UNCHANGED <<xvars, pvars>>
    \/ \E id \in 1..MaxOps : MintHttpError(id) /\ UNCHANGED <<xvars, pvars>>
    \/ \E id \in 1..MaxOps : RefreshHttpError(id) /\ UNCHANGED <<xvars, pvars>>
    \/ \E id \in 1..MaxOps : Reject(id) /\ UNCHANGED <<xvars, pvars>>
    \/ \E id \in 1..MaxOps : TransportFailure(id) /\ UNCHANGED <<xvars, pvars>>
    \/ Tick /\ UNCHANGED <<xvars, pvars>>

SpecClient == InitClient /\ [][NextClient]_allvars

\* the underlying calls made so far by this request
callsMade == Len(exchanges) + (IF pc = "sent" THEN 1 ELSE 0)

\* the request is over
Done == pc \in {"returned", "raised"}

\* the statuses answered to this request, in order (0: no response)
RECURSIVE StatusesOf(_)
StatusesOf(xs) ==
    IF xs = <<>> THEN <<>> ELSE <<xs[1].status>> \o StatusesOf(Tail(xs))

Retryable(r) == r.status \in retryConfig.retryableStatusCodes

(***************************************************************************)
(* The functions of api-error.ts, backoff.ts and rate-limit.ts called on   *)
(* their own: the arguments are drawn from the sets below, one action per  *)
(* call.                                                                   *)
(***************************************************************************)
Statuses == {400, 401, 402, 403, 404, 409, 418, 429, 500, 502, 503, 504}
Summaries ==
    {<<>>, AccountNotFound, TransactionAccount, RequisitionAgreement,
     AgreementTransaction, AgreementMissing, NotFound, IpBlocked,
     SubscriptionExpired, AccessDenied}
Details == {<<>>, TryAgainIn60, TryAgainIn5, TryAgainSoon, TooManyRequests}

\* getRetryAfter without the test of the code (part_010:114)
getRetryAfter_AnyCode(err) ==
    IF matchTryAgain(err.detail) # NULL
    THEN parseInt(matchTryAgain(err.detail))
    ELSE NULL

\* getRetryAfter (part_010:113-123) of the error err: null, or <<seconds>>
getRetryAfter(err) ==
    IF err.code # "RATE_LIMIT_EXCEEDED" THEN NULL
    ELSE IF matchTryAgain(err.detail) # NULL
    THEN parseInt(matchTryAgain(err.detail))
    ELSE NULL

\* the executor unused, any status and any body to classify
InitApiError ==
    /\ NewTokenManager
    /\ NewHttpClient(DefaultRetryConfig, <<>>, <<>>, FALSE)
    /\ fn = ""
    /\ args \in [statusCode : Statuses,
                 body : [summary : Summaries, detail : Details]]
    /\ ret = NULL

\* GoCardlessAPIError.fromResponse(statusCode, body)
CallFromResponse ==
    /\ fn = ""
    /\ fn' = "fromResponse"
    /\ ret' = fromResponse(args.statusCode, args.body, NULL)
    /\ UNCHANGED args

\* getRetryAfter() on the error fromResponse returned
CallGetRetryAfter ==
    /\ fn = "fromResponse"
    /\ fn' = "getRetryAfter"
    /\ args' = ret
    /\ ret' = getRetryAfter(ret)

NextApiError ==
    \/ CallFromResponse /\ UNCHANGED <<vars, xvars>>
    \/ CallGetRetryAfter /\ UNCHANGED <<vars, xvars>>

SpecApiError == InitApiError /\ [][NextApiError]_allvars

\* the arguments of calculateBackoff
BackoffArgs ==
    [attemptNumber : 0..MaxAttempt,
     strategy : {"linear", "exponential"},
     initialDelayMs : {0, 500, 1000},
     maxDelayMs : {0, 1500, 30000}]

InitBackoff ==
    /\ NewTokenManager
    /\ NewHttpClient(DefaultRetryConfig, <<>>, <<>>, FALSE)
    /\ fn = ""
    /\ args \in BackoffArgs
    /\ ret = NULL

\* calculateBackoff(attemptNumber, strategy, initialDelayMs, maxDelayMs)
CallCalculateBackoff ==
    /\ fn = ""
    /\ fn' = "calculateBackoff"
    /\ ret' = calculateBackoff(args.attemptNumber, args.strategy,
                               args.initialDelayMs, args.maxDelayMs)
    /\ UNCHANGED args

NextBackoff == CallCalculateBackoff /\ UNCHANGED <<vars, xvars>>

SpecBackoff == InitBackoff /\ [][NextBackoff]_allvars

\* the six headers parseRateLimitHeaders reads, and the values of one
HeaderNames ==
    {"x-ratelimit-limit", "x-ratelimit-remaining", "x-ratelimit-reset",
     "x-ratelimit-account-success-limit",
     "x-ratelimit-account-success-remaining",
     "x-ratelimit-account-success-reset"}
HeaderValues == {<<"0">>, <<"1", "2">>, <<"a", "b", "c">>, <<>>}

\* the headers of a response: any of the six, with any of the values
HeaderSets ==
    UNION {[names -> HeaderValues] : names \in SUBSET HeaderNames}

InitRateLimit ==
    /\ NewTokenManager
    /\ NewHttpClient(DefaultRetryConfig, <<>>, <<>>, FALSE)
    /\ fn = ""
    /\ args \in HeaderSets
    /\ ret = NULL

\* parseRateLimitHeaders(headers)
CallParseRateLimitHeaders ==
    /\ fn = ""
    /\ fn' = "parseRateLimitHeaders"
    /\ ret' = parseRateLimitHeaders(args)
    /\ UNCHANGED args

NextRateLimit == CallParseRateLimitHeaders /\ UNCHANGED <<vars, xvars>>

SpecRateLimit == InitRateLimit /\ [][NextRateLimit]_allvars

(***************************************************************************)
(* Vocabulary of the properties.                                           *)
(***************************************************************************)
\* the callers whose getAccessToken() call is made in this step
Calling ==
    {c \in Callers : callers[c].state # "waiting" /\ callers'[c] # callers[c]}

\* the callers awaiting promise id itself
Awaiting(id) ==
    {c \in Callers : callers[c].state = "waiting" /\ callers[c].op = id}

\* the callers awaiting promise id or a promise chained to it
AwaitingChain(id) ==
    {c \in Callers : callers[c].state = "waiting" /\ Root(callers[c].op) = id}

Ids == 1..Len(ops)

\* the promise of call id settles in this step
Settles(id) ==
    ops[id].state \in {"sent", "parsing"} /\ ops'[id].state = "settled"

\* call id answers 2xx in this step: the only settlement that stores tokens
Succeeds(id) == ops[id].state = "sent" /\ Settles(id) /\ tokens' # tokens

\* call id fails in this step
Fails(id) == Settles(id) /\ tokens' = tokens

\* the error raised when call id fails in this step with an HTTP response
\* (of any body), or without one
ErrorOf(id) ==
    IF ops[id].state = "parsing"
    THEN {fromResponse(ops[id].status, b, NULL) : b \in ErrorBodies}
    ELSE {TransportError}

HasPair == tokens # NULL
RefreshExpired == HasPair /\ now >= tokens[1].refreshExpiresAt
InRefreshWindow ==
    /\ HasPair
    /\ now < tokens[1].refreshExpiresAt
    /\ now >= tokens[1].accessExpiresAt - RefreshMargin
StillValid ==
    /\ HasPair
    /\ now < tokens[1].refreshExpiresAt
    /\ now < tokens[1].accessExpiresAt - RefreshMargin

\* exactly one call is issued in this step, of this kind, and the callers
\* of this step all await it
IssuesOne(kind) ==
    /\ Len(ops') = Len(ops) + 1
    /\ ops'[Len(ops')].kind = kind
    /\ ops'[Len(ops')].state = "sent"
    /\ \A i \in Ids : ops'[i] = ops[i]
    /\ refreshPromise' = Len(ops')
    /\ \A c \in Calling : /\ callers'[c].state = "waiting"
                          /\ callers'[c].op = Len(ops')

\* no call is issued in this step and the callers of this step all await
\* the promise of the marker
JoinsMarker ==
    /\ ops' = ops
    /\ refreshPromise' = refreshPromise
    /\ \A c \in Calling : /\ callers'[c].state = "waiting"
                          /\ callers'[c].op = refreshPromise

(***************************************************************************)
(* C1.  N getAccessToken() calls made together on a manager with no stored *)
(* tokens and a null marker issue exactly one mint call, which all of them *)
(* await; calls arriving on the empty manager while a call is in flight    *)
(* issue none and await it; and when the mint answers 2xx, every caller    *)
(* awaiting it resolves to the access token of that answer.                *)
(***************************************************************************)
C1_OneMint ==
    (Calling # {} /\ tokens = NULL /\ refreshPromise = NoPromise)
        => IssuesOne("mint")

C1_Join ==
    (Calling # {} /\ tokens = NULL /\ refreshPromise # NoPromise)
        => JoinsMarker

C1_SameToken ==
    \A id \in Ids :
        (ops[id].kind = "mint" /\ Succeeds(id)) =>
            /\ tokens'[1].accessToken = AccessOf(id)
            /\ \A c \in Awaiting(id) :
                   /\ callers'[c].state = "resolved"
                   /\ callers'[c].value = AccessOf(id)

C1_ConcurrentMint == [][C1_OneMint /\ C1_Join /\ C1_SameToken]_vars

\* all callers have resolved to the token of the one mint call made
C1_Witness ==
    /\ Len(ops) = 1
    /\ ops[1].state = "settled"
    /\ HasPair
    /\ tokens[1].accessToken = AccessOf(1)
    /\ \A c \in Callers : /\ callers[c].state = "resolved"
                          /\ ~callers[c].cached
                          /\ callers[c].value = AccessOf(1)

(***************************************************************************)
(* C2.  While clear() is never called, at most one token network call      *)
(* (mint or refresh) is outstanding at any time.                           *)
(***************************************************************************)
C2_AtMostOneOutstanding == Cardinality(Outstanding) <= 1

(***************************************************************************)
(* C3.  One caller, stored pair in the refresh window, refresh answered    *)
(* 401: the answer issues exactly one mint call and chains the refresh to  *)
(* it; while the caller waits, the calls issued since its call are that    *)
(* refresh and that mint only; a 2xx answer of the mint resolves the       *)
(* caller with the newly minted access token; and the caller does not wait *)
(* forever.                                                                *)
(***************************************************************************)
C3_Fallback ==
    \A id \in Ids :
        (ops[id].kind = "refresh" /\ ops[id].state = "sent"
         /\ ops'[id].status = 401) =>
            /\ Len(ops') = Len(ops) + 1
            /\ ops'[Len(ops')].kind = "mint"
            /\ ops'[Len(ops')].state = "sent"
            /\ ops'[id].state = "chained"
            /\ ops'[id].next = Len(ops')

C3_Resolve ==
    \A id \in Ids :
        (ops[id].kind = "mint" /\ Succeeds(id)) =>
            \A c \in AwaitingChain(id) :
                /\ callers'[c].state = "resolved"
                /\ callers'[c].value = AccessOf(id)
                /\ callers'[c].value = tokens'[1].accessToken

C3_WaitsOnFallback ==
    callers[1].state = "waiting" /\ ops[callers[1].op].state = "chained"

C3_OneRefreshOneMint ==
    C3_WaitsOnFallback =>
        LET r == callers[1].op
        IN  /\ ops[r].kind = "refresh"
            /\ ops[r].next = r + 1
            /\ Len(ops) = r + 1
            /\ ops[r + 1].kind = "mint"
            /\ ops[r + 1].state \in {"sent", "parsing"}

C3_NoDeadlock ==
    /\ []C3_OneRefreshOneMint
    /\ [][C3_Fallback /\ C3_Resolve]_vars
    /\ (C3_WaitsOnFallback ~> (callers[1].state # "waiting"))

\* the caller has resolved to the token of the fallback mint
C3_Witness ==
    \E r \in Ids :
        /\ ops[r].state = "chained"
        /\ ops[ops[r].next].state = "settled"
        /\ callers[1].state = "resolved"
        /\ ~callers[1].cached
        /\ callers[1].value = AccessOf(ops[r].next)
        /\ HasPair
        /\ tokens[1].accessToken = AccessOf(ops[r].next)

(***************************************************************************)
(* C4.  N getAccessToken() calls made together while the stored pair is in *)
(* the refresh window and the marker is null issue exactly one refresh     *)
(* call and no mint call, and all await it; calls arriving in the refresh  *)
(* window while a call is in flight issue none and await it; and when the  *)
(* refresh answers 2xx, every caller awaiting it resolves to the refreshed *)
(* access token.                                                           *)
(***************************************************************************)
C4_OneRefresh ==
    (Calling # {} /\ InRefreshWindow /\ refreshPromise = NoPromise)
        => IssuesOne("refresh")

C4_Join ==
    (Calling # {} /\ InRefreshWindow /\ refreshPromise # NoPromise)
        => JoinsMarker

C4_SameToken ==
    \A id \in Ids :
        (ops[id].kind = "refresh" /\ Succeeds(id)) =>
            /\ tokens'[1].accessToken = AccessOf(id)
            /\ \A c \in Awaiting(id) :
                   /\ callers'[c].state = "resolved"
                   /\ callers'[c].value = AccessOf(id)

C4_ConcurrentRefresh == [][C4_OneRefresh /\ C4_Join /\ C4_SameToken]_vars

\* a mint, then one refresh: all callers have resolved to the refreshed token
C4_Witness ==
    /\ Len(ops) = 2
    /\ InFlight = {}
    /\ HasPair
    /\ tokens[1].refreshToken = RefreshOf(1)
    /\ tokens[1].accessToken = AccessOf(2)
    /\ \A c \in Callers : /\ callers[c].state = "resolved"
                          /\ ~callers[c].cached
                          /\ callers[c].value = AccessOf(2)

(***************************************************************************)
(* C5.  When a mint, or a refresh with a status other than 401, fails,     *)
(* every caller awaiting that call is rejected with one and the same       *)
(* error, that of the call, and the failure issues no further call; a      *)
(* caller needing a mint or a refresh while the marker is set had issued   *)
(* no call of its own.                                                     *)
(***************************************************************************)
C5_SameRejection ==
    \A id \in Ids :
        Fails(id) =>
            /\ Len(ops') = Len(ops)
            /\ \E e \in ErrorOf(id) :
                   \A c \in Awaiting(id) : /\ callers'[c].state = "rejected"
                                           /\ callers'[c].err = e

C5_Coalesced ==
    (Calling # {} /\ ~StillValid /\ refreshPromise # NoPromise)
        => JoinsMarker

C5_SharedFailure == [][C5_SameRejection /\ C5_Coalesced]_vars

\* the one mint call made has failed and has rejected all callers alike
C5_Witness ==
    /\ Len(ops) = 1
    /\ ops[1].state = "settled"
    /\ tokens = NULL
    /\ callers[1].err # NoError
    /\ \A c \in Callers : /\ callers[c].state = "rejected"
                          /\ callers[c].err = callers[1].err

(***************************************************************************)
(* C6.  With a pair stored, now < refreshExpiresAt and                     *)
(* now < accessExpiresAt - 60000, getAccessToken() returns the stored      *)
(* access token, issues no network call and leaves the stored pair and the *)
(* marker unchanged.                                                       *)
(***************************************************************************)
C6_CachedFrame ==
    [][(Calling # {} /\ StillValid) =>
          /\ tokens' = tokens
          /\ refreshPromise' = refreshPromise
          /\ ops' = ops
          /\ \A c \in Calling :
                 /\ callers'[c].state = "resolved"
                 /\ callers'[c].cached
                 /\ callers'[c].value = tokens[1].accessToken]_vars

\* a caller holds the stored token, returned without a call
C6_Witness ==
    /\ StillValid
    /\ \E c \in Callers : /\ callers[c].state = "resolved"
                          /\ callers[c].cached
                          /\ callers[c].value = tokens[1].accessToken

(***************************************************************************)
(* C7.  With no operation in flight, getAccessToken() checks in order: no  *)
(* stored pair -> one mint; now >= refreshExpiresAt (whatever the access   *)
(* expiry) -> one mint, no refresh; otherwise                              *)
(* now >= accessExpiresAt - 60000 -> one refresh, no mint.                 *)
(***************************************************************************)
C7_Order ==
    [][(Calling # {} /\ InFlight = {}) =>
          /\ (tokens = NULL => IssuesOne("mint"))
          /\ (RefreshExpired => IssuesOne("mint"))
          /\ (InRefreshWindow => IssuesOne("refresh"))]_vars

\* a mint started on a pair whose refresh token expires exactly now, while
\* the pair is also within the refresh margin
C7_Witness ==
    /\ Len(ops) = 2
    /\ ops[1].state = "settled"
    /\ ops[2].kind = "mint"
    /\ ops[2].state = "sent"
    /\ HasPair
    /\ now = tokens[1].refreshExpiresAt
    /\ now >= tokens[1].accessExpiresAt - RefreshMargin
    /\ \E c \in Callers : callers[c].state = "waiting" /\ callers[c].op = 2

(***************************************************************************)
(* C8.  A successful refresh replaces accessToken and accessExpiresAt of   *)
(* the stored pair only: refreshToken and refreshExpiresAt are the same    *)
(* after it as before it.                                                  *)
(***************************************************************************)
C8_RefreshFrame ==
    [][\A id \in Ids :
          (ops[id].kind = "refresh" /\ Succeeds(id) /\ HasPair) =>
              /\ tokens' # NULL
              /\ tokens'[1].refreshToken = tokens[1].refreshToken
              /\ tokens'[1].refreshExpiresAt = tokens[1].refreshExpiresAt
              /\ tokens'[1].accessToken = AccessOf(id)
              /\ \E e \in AccessExpiresSecs :
                     tokens'[1].accessExpiresAt = now + e * MsPerSecond]_vars

\* the pair holds the refresh token of the mint and the access token of a
\* later refresh, whose expiry is past the untouched refresh expiry
C8_Witness ==
    /\ HasPair
    /\ tokens[1].refreshToken = RefreshOf(1)
    /\ tokens[1].accessToken = AccessOf(2)
    /\ tokens[1].accessExpiresAt > tokens[1].refreshExpiresAt

(***************************************************************************)
(* C9.  When a mint call fails with an HTTP response, every caller         *)
(* awaiting it is rejected with the classified error whose statusCode is   *)
(* the response status, the stored tokens are unchanged, and the marker is *)
(* cleared: the marker never refers to a settled call, so the next         *)
(* getAccessToken() does not re-await the failed one.                      *)
(***************************************************************************)
C9_Rejects ==
    \A id \in Ids :
        (ops[id].kind = "mint" /\ ops[id].state = "parsing" /\ Settles(id)) =>
            /\ tokens' = tokens
            /\ refreshPromise' = NoPromise
            /\ Len(ops') = Len(ops)
            /\ \A c \in AwaitingChain(id) :
                   /\ callers'[c].state = "rejected"
                   /\ callers'[c].err.kind = "api"
                   /\ callers'[c].err.statusCode = ops[id].status
                   /\ callers'[c].err \in ErrorOf(id)

C9_MarkerLive ==
    refreshPromise # NoPromise =>
        /\ refreshPromise \in Ids
        /\ ops[refreshPromise].state \in {"sent", "parsing"}

C9_NextMints ==
    (Calling # {} /\ tokens = NULL /\ Len(ops) > 0 /\ InFlight = {})
        => IssuesOne("mint")

C9_MintFailure == [][C9_Rejects /\ C9_NextMints]_vars /\ []C9_MarkerLive

\* the first mint answered 401: a caller holds the classified error, the
\* manager is still empty, and the next call has issued a second mint
C9_Witness ==
    /\ Len(ops) = 2
    /\ ops[1].state = "settled"
    /\ ops[2].kind = "mint"
    /\ ops[2].state = "sent"
    /\ tokens = NULL
    /\ refreshPromise = 2
    /\ \E c \in Callers : callers[c].state = "waiting" /\ callers[c].op = 2
    /\ \E c \in Callers :
           /\ callers[c].state = "rejected"
           /\ callers[c].err.kind = "api"
           /\ callers[c].err.statusCode = 401
           /\ callers[c].err.code = "AUTHENTICATION_FAILED"

(***************************************************************************)
(* C10.  When a refresh call fails with an HTTP status other than 401, no  *)
(* mint call is issued as a fallback; every caller awaiting the refresh is *)
(* rejected with the classified error of that status, the stored pair is   *)
(* unchanged and the marker is null afterwards.                            *)
(***************************************************************************)
C10_NoFallback ==
    \A id \in Ids :
        (ops[id].kind = "refresh" /\ ops[id].state = "sent"
         /\ ops'[id].status \notin {0, 401}) =>
            /\ ops'[id].state = "parsing"
            /\ Len(ops') = Len(ops)
            /\ tokens' = tokens

C10_Rejects ==
    \A id \in Ids :
        (ops[id].kind = "refresh" /\ ops[id].state = "parsing"
         /\ Settles(id)) =>
            /\ tokens' = tokens
            /\ refreshPromise' = NoPromise
            /\ Len(ops') = Len(ops)
            /\ \A c \in Awaiting(id) :
                   /\ callers'[c].state = "rejected"
                   /\ callers'[c].err.kind = "api"
                   /\ callers'[c].err.statusCode = ops[id].status
                   /\ callers'[c].err \in ErrorOf(id)

C10_RefreshFailure == [][C10_NoFallback /\ C10_Rejects]_vars

\* a mint, then a refresh answered 500: the caller holds the classified
\* error, the pair of the mint is still stored, nothing is in flight
C10_Witness ==
    /\ Len(ops) = 2
    /\ InFlight = {}
    /\ refreshPromise = NoPromise
    /\ HasPair
    /\ tokens[1].accessToken = AccessOf(1)
    /\ now < tokens[1].refreshExpiresAt
    /\ \E c \in Callers :
           /\ callers[c].state = "rejected"
           /\ callers[c].err.statusCode = 500
           /\ callers[c].err.code = "INTERNAL_SERVER_ERROR"

(***************************************************************************)
(* C11.  clear() nulls the stored tokens and the marker at once and        *)
(* touches nothing else: no call is cancelled and no caller is settled by  *)
(* it.  Whenever a call settles, whatever the marker and the stored tokens *)
(* have become since it started, every caller awaiting it receives its     *)
(* result: the access token of its answer, or its error.                   *)
(***************************************************************************)
\* clear() is the only step that leaves the calls, the callers and the
\* clock as they are
C11_ClearNulls ==
    (ops' = ops /\ callers' = callers /\ now' = now) =>
        (tokens' = NULL /\ refreshPromise' = NoPromise)

C11_StillDelivered ==
    \A id \in Ids :
        Settles(id) =>
            \A c \in AwaitingChain(id) :
                \/ /\ Succeeds(id)
                   /\ callers'[c].state = "resolved"
                   /\ callers'[c].value = AccessOf(id)
                \/ /\ Fails(id)
                   /\ callers'[c].state = "rejected"
                   /\ callers'[c].err \in ErrorOf(id)

C11_Clear == [][C11_ClearNulls /\ C11_StillDelivered]_vars

\* caller 1 has received the token of mint 1 although a second mint was
\* started while the pair of mint 1 is neither absent nor expired: the
\* second mint can only have started on a manager cleared while mint 1 was
\* in flight
C11_Witness ==
    /\ Len(ops) = 2
    /\ ops[1].state = "settled"
    /\ ops[2].kind = "mint"
    /\ ops[2].state = "sent"
    /\ callers[1].state = "resolved"
    /\ ~callers[1].cached
    /\ callers[1].value = AccessOf(1)
    /\ callers[2].state = "waiting"
    /\ callers[2].op = 2
    /\ HasPair
    /\ tokens[1].accessToken = AccessOf(1)
    /\ now < tokens[1].refreshExpiresAt

(***************************************************************************)
(* C12.  The result of a call that was in flight when clear() was called   *)
(* is discarded for later callers.  Its instance for the first call: when  *)
(* the only call made so far settles with the marker already null (so      *)
(* clear() was called while it was in flight), a getAccessToken() made     *)
(* next is not served from the cache.                                      *)
(***************************************************************************)
C12_PreClearDiscarded ==
    [][(/\ Len(ops) = 1
        /\ ops[1].state = "sent"
        /\ refreshPromise = NoPromise
        /\ Settles(1))
           => choosePath(tokens', now') # "cached"]_vars

(***************************************************************************)
(* C13.  With maxRetries = 2 and retryableStatusCodes = [429]: a request   *)
(* answered 429, or 429 then 429, is not over; a request answered 429,     *)
(* 429, 200 has made exactly 3 underlying calls, makes no more, raises no  *)
(* error, and returns the decoded body of the 200 response.                *)
(***************************************************************************)
C13_RetryThenSuccess ==
    (retryConfig.maxRetries = 2 /\ retryConfig.retryableStatusCodes = {429})
    =>
    /\ StatusesOf(exchanges) \in {<<429>>, <<429, 429>>} => ~Done
    /\ (StatusesOf(exchanges) = <<429, 429, 200>> /\ Response.json) =>
           /\ callsMade = 3
           /\ pc \in {"decoding", "returned"}
           /\ pc = "decoding" => result = NoResult
           /\ pc = "returned" => result = Returned(exchanges[3].data)

\* 429, 429, 200 answered and the body of the 200 returned
C13_Witness ==
    /\ retryConfig.maxRetries = 2
    /\ retryConfig.retryableStatusCodes = {429}
    /\ StatusesOf(exchanges) = <<429, 429, 200>>
    /\ pc = "returned"
    /\ result = Returned("data1")
    /\ Len(sleeps) = 2

(***************************************************************************)
(* C14.  One request makes at most maxRetries + 1 underlying calls; a      *)
(* request that is over and whose answers all had a retryable status has   *)
(* made exactly maxRetries + 1 calls and has raised the classified error   *)
(* built from the last answer.                                             *)
(***************************************************************************)
C14_Bounded ==
    /\ callsMade <= retryConfig.maxRetries + 1
    /\ (/\ Done
        /\ exchanges # <<>>
        /\ \A i \in 1..Len(exchanges) : Retryable(exchanges[i])) =>
           /\ Len(exchanges) = retryConfig.maxRetries + 1
           /\ callsMade = retryConfig.maxRetries + 1
           /\ result = Raised(classify(Response))

\* three retryable answers, the first and the last of different statuses:
\* the error raised is that of the last
C14_Witness ==
    /\ retryConfig.maxRetries = 2
    /\ Len(exchanges) = 3
    /\ \A i \in 1..3 : Retryable(exchanges[i])
    /\ exchanges[1].status # exchanges[3].status
    /\ pc = "raised"
    /\ result.err.statusCode = exchanges[3].status

C16_FailsNow ==
    (pc = "sent" /\ exchanges' = Append(exchanges, NoResponse)) =>
        /\ pc' = "raised"
        /\ result' = Raised(TransportError)
        /\ sleeps' = sleeps
        /\ lastError' = lastError
        /\ lastRateLimit' = lastRateLimit

C16_Over ==
    (exchanges # <<>> /\ Response = NoResponse) =>
        /\ pc = "raised"
        /\ result = Raised(TransportError)
        /\ callsMade = Len(exchanges)
        /\ Len(sleeps) = Len(exchanges) - 1

C16_TransportError == [][C16_FailsNow]_xvars /\ []C16_Over

\* the call of the first retry failed without a response: the transport
\* error is raised and the snapshot of the first answer is still there
C16_Witness ==
    /\ Len(exchanges) = 2
    /\ attemptNumber = 1
    /\ Response = NoResponse
    /\ pc = "raised"
    /\ result.err = TransportError
    /\ lastRateLimit = parseRateLimitHeaders(exchanges[1].headers)
    /\ lastRateLimit # NULL

(***************************************************************************)
(* C17.  With respectRetryAfter = true, the sleep that follows a retried   *)
(* 429 answer whose detail contains "try again in N seconds" is            *)
(* min(N * 1000, maxDelayMs): for N = 60, 10000 when maxDelayMs = 10000    *)
(* and 60000 when maxDelayMs = 120000.                                     *)
(***************************************************************************)
\* the answer has status 429 and its detail holds "try again in <digits>"
HasHint(r) == r.status = 429 /\ r.json /\ r.body.detail \in {TryAgainIn60, TryAgainIn5}

\* the N of that detail
HintSeconds(r) == IF r.body.detail = TryAgainIn60 THEN 60 ELSE 5

C17_RetryAfterSleep ==
    retryConfig.respectRetryAfter =>
        \A k \in 1..Len(sleeps) :
            HasHint(exchanges[k]) =>
                /\ sleeps[k] =
                       Min(HintSeconds(exchanges[k]) * 1000,
                           retryConfig.maxDelayMs)
                /\ (exchanges[k].body.detail = TryAgainIn60
                    /\ retryConfig.maxDelayMs = 10000) => sleeps[k] = 10000
                /\ (exchanges[k].body.detail = TryAgainIn60
                    /\ retryConfig.maxDelayMs = 120000) => sleeps[k] = 60000

\* "try again in 60 seconds" with maxDelayMs = 10000: one sleep of 10000,
\* where the backoff calculator gives 1000
C17_Witness ==
    /\ retryConfig.respectRetryAfter
    /\ retryConfig.maxDelayMs = 10000
    /\ Len(exchanges) >= 1
    /\ HasHint(exchanges[1])
    /\ exchanges[1].body.detail = TryAgainIn60
    /\ sleeps = <<10000>>
    /\ calculateBackoff(1, retryConfig.backoff, retryConfig.initialDelayMs,
                        retryConfig.maxDelayMs) = 1000

(***************************************************************************)
(* C18.  When respectRetryAfter is false, or the answer yields no          *)
(* retry-after value, the sleep before the k-th retry is                   *)
(* calculateBackoff(k, backoff, initialDelayMs, maxDelayMs): with          *)
(* initialDelayMs = 1000, 1000 then 2000 for exponential and for linear    *)
(* backoff.                                                                *)
(***************************************************************************)
C18_BackoffSleep ==
    \A k \in 1..Len(sleeps) :
        (~retryConfig.respectRetryAfter \/ ~HasHint(exchanges[k])) =>
            /\ sleeps[k] = calculateBackoff(k, retryConfig.backoff,
                                            retryConfig.initialDelayMs,
                                            retryConfig.maxDelayMs)
            /\ (retryConfig.initialDelayMs = 1000 /\ k = 1) => sleeps[k] = 1000
            /\ (retryConfig.initialDelayMs = 1000 /\ k = 2) => sleeps[k] = 2000

\* exponential backoff, respectRetryAfter = false, two retries although
\* the first answer carried a retry-after hint
C18_Witness ==
    /\ ~retryConfig.respectRetryAfter
    /\ retryConfig.backoff = "exponential"
    /\ Len(exchanges) >= 2
    /\ HasHint(exchanges[1])
    /\ sleeps = <<1000, 2000>>

(***************************************************************************)
(* C19.  With maxRetries = 0, a first answer with a retryable status makes *)
(* the request raise the classified error of that answer after exactly 1   *)
(* underlying call and no sleep.                                           *)
(***************************************************************************)
C19_NoRetries ==
    (/\ retryConfig.maxRetries = 0
     /\ exchanges # <<>>
     /\ exchanges[1] \in ErrorResponses
     /\ Retryable(exchanges[1])
     /\ pc # "parsing") =>
        /\ pc = "raised"
        /\ result = Raised(classify(exchanges[1]))
        /\ Len(exchanges) = 1
        /\ callsMade = 1
        /\ sleeps = <<>>

\* maxRetries = 0 and a first answer 429
C19_Witness ==
    /\ retryConfig.maxRetries = 0
    /\ StatusesOf(exchanges) = <<429>>
    /\ pc = "raised"
    /\ result.err.code = "RATE_LIMIT_EXCEEDED"
    /\ sleeps = <<>>

(***************************************************************************)
(* C20.  Once an exchange of the current request has completed (its        *)
(* answer has passed processRateLimitHeaders), getLastRateLimitInfo() is   *)
(* the snapshot parsed from the headers of the most recent such exchange,  *)
(* undefined when those headers yield none; and it is undefined as long as *)
(* no exchange has completed on the executor.                              *)
(***************************************************************************)
getLastRateLimitInfo == lastRateLimit

C20_MostRecentExchange ==
    /\ (exchanges # <<>> /\ Response # NoResponse /\ pc # "parsing") =>
           getLastRateLimitInfo = parseRateLimitHeaders(Response.headers)
    /\ (requests = 0 \/ (requests = 1 /\ exchanges = <<>>)) =>
           getLastRateLimitInfo = NULL
(***************************************************************************)
(* C21.  With a rate-limit callback configured, the calls of the callback  *)
(* made for the current request are, in order and once each, the snapshots *)
(* of the exchanges handled so far (answered 2xx or not, first attempt or  *)
(* retry) whose headers yield a snapshot, and no call is made for an       *)
(* exchange whose headers yield none; with no callback no call is made.    *)
(***************************************************************************)
\* the exchanges of this request whose answer has been handled
Handled ==
    IF pc \in {"responseInterceptor", "parsing"}
    THEN SubSeq(exchanges, 1, Len(exchanges) - 1)
    ELSE exchanges

\* the snapshots of the answers xs that yield one, in order
RECURSIVE SnapshotsOf(_)
SnapshotsOf(xs) ==
    IF xs = <<>> THEN <<>>
    ELSE (IF parseRateLimitHeaders(xs[1].headers) # NULL
          THEN <<parseRateLimitHeaders(xs[1].headers)>>
          ELSE <<>>) \o SnapshotsOf(Tail(xs))

C21_CallbackOncePerSnapshot ==
    /\ onRateLimit => notified = SnapshotsOf(Handled)
    /\ ~onRateLimit => notified = <<>>
    /\ \A i \in 1..Len(Handled) :
           Handled[i].headers \in {NoHeaders, InvalidHeaders} =>
               Len(notified) < Len(Handled)

\* a request answered 429 with account headers, 429 with no header, then
\* 200 with general headers: two calls, one for the first answer and one
\* for the third
C21_Witness ==
    /\ onRateLimit
    /\ pc = "returned"
    /\ StatusesOf(exchanges) = <<429, 429, 200>>
    /\ exchanges[1].headers = AccountHeaders
    /\ exchanges[2].headers = NoHeaders
    /\ exchanges[3].headers = GeneralHeaders
    /\ Len(notified) = 2
    /\ notified[1] = parseRateLimitHeaders(AccountHeaders)
    /\ notified[2] = parseRateLimitHeaders(GeneralHeaders)
    /\ notified[1] # notified[2]
(***************************************************************************)
(* C22.  When the request has raised the classified error of a 429 answer  *)
(* whose detail contains "try again in N seconds", the meta of that error  *)
(* is { retryAfter: N }.                                                   *)
(***************************************************************************)
C22_RetryAfterMeta ==
    (/\ pc = "raised"
     /\ result.err.kind = "api"
     /\ exchanges # <<>>
     /\ HasHint(Response)) =>
        result.err.meta = <<[retryAfter |-> HintSeconds(Response)]>>
(***************************************************************************)
(* C23.  When a request is over because of an answer that is an HTTP error *)
(* response, what it raised is a classified error whose statusCode is the  *)
(* status of that answer, never the transport error; when the body of the  *)
(* answer does not decode as JSON, the summary and the detail of the error *)
(* are the defaults and its code is the one of the status with no summary. *)
(***************************************************************************)
C23_Classified ==
    (Done /\ exchanges # <<>> /\ Response \in ErrorResponses) =>
        /\ pc = "raised"
        /\ result.kind = "error"
        /\ result.err.kind = "api"
        /\ result.err # TransportError
        /\ result.err.statusCode = Response.status
        /\ ~Response.json =>
               /\ result.err.summary = DefaultSummary
               /\ result.err.detail = DefaultDetail
               /\ result.err.code = getErrorCode(Response.status, EmptyBody)
               /\ Response.status = 404 => result.err.code = "NOT_FOUND"
               /\ Response.status = 503 =>
                      result.err.code = "SERVICE_UNAVAILABLE"

\* a 404 answer whose body is text about an account, not JSON
C23_Witness ==
    /\ pc = "raised"
    /\ StatusesOf(exchanges) = <<404>>
    /\ ~Response.json
    /\ Response.body.summary = AccountNotFound
    /\ result.err.statusCode = 404
    /\ result.err.code = "NOT_FOUND"
    /\ result.err.summary = DefaultSummary
(***************************************************************************)
(* C24.  fromResponse gives the code PAYMENT_REQUIRED to status 402 and    *)
(* the code CONFLICT to status 409, whatever the summary.                  *)
(***************************************************************************)
C24_PaymentAndConflict ==
    fn = "fromResponse" =>
        /\ args.statusCode = 402 => ret.code = "PAYMENT_REQUIRED"
        /\ args.statusCode = 409 => ret.code = "CONFLICT"

(***************************************************************************)
(* C25.  For status 404 the code is that of the first of account,          *)
(* transaction, requisition, agreement that the summary contains, whatever *)
(* the case of its letters, and NOT_FOUND when it contains none; 429, 401, *)
(* 400, 500, 502, 503 and 504 have their code whatever the summary; 403    *)
(* has IP_NOT_WHITELISTED when the summary contains "ip" and FORBIDDEN     *)
(* otherwise; the code depends on the status and the summary only.         *)
(***************************************************************************)
\* which of the words each summary of the examples contains, letter case
\* apart
Mentions(summary) ==
    CASE summary = AccountNotFound -> {"account"}
      [] summary = TransactionAccount -> {"transaction", "account"}
      [] summary = RequisitionAgreement -> {"requisition", "agreement"}
      [] summary = AgreementTransaction -> {"agreement", "transaction"}
      [] summary = AgreementMissing -> {"agreement"}
      [] summary = IpBlocked -> {"ip"}
      [] summary = SubscriptionExpired -> {"ip"}
      [] OTHER -> {}

C25_Expected(statusCode, summary) ==
    CASE statusCode = 404 /\ "account" \in Mentions(summary)
             -> "ACCOUNT_NOT_FOUND"
      [] statusCode = 404 /\ "account" \notin Mentions(summary)
                          /\ "transaction" \in Mentions(summary)
             -> "TRANSACTION_NOT_FOUND"
      [] statusCode = 404 /\ Mentions(summary) \cap
                                 {"account", "transaction"} = {}
                          /\ "requisition" \in Mentions(summary)
             -> "REQUISITION_NOT_FOUND"
      [] statusCode = 404 /\ Mentions(summary) \cap
                                 {"account", "transaction",
                                  "requisition"} = {}
                          /\ "agreement" \in Mentions(summary)
             -> "AGREEMENT_NOT_FOUND"
      [] statusCode = 404 /\ Mentions(summary) \cap
                                 {"account", "transaction", "requisition",
                                  "agreement"} = {}
             -> "NOT_FOUND"
      [] statusCode = 429 -> "RATE_LIMIT_EXCEEDED"
      [] statusCode = 401 -> "AUTHENTICATION_FAILED"
      [] statusCode = 400 -> "VALIDATION_ERROR"
      [] statusCode = 500 -> "INTERNAL_SERVER_ERROR"
      [] statusCode = 502 -> "BAD_GATEWAY"
      [] statusCode = 503 -> "SERVICE_UNAVAILABLE"
      [] statusCode = 504 -> "GATEWAY_TIMEOUT"
      [] statusCode = 403 /\ "ip" \in Mentions(summary)
             -> "IP_NOT_WHITELISTED"
      [] statusCode = 403 /\ "ip" \notin Mentions(summary) -> "FORBIDDEN"

C25_CodeOfStatusAndSummary ==
    fn = "fromResponse" =>
        /\ args.statusCode \in {400, 401, 403, 404, 429, 500, 502, 503, 504}
               => ret.code = C25_Expected(args.statusCode, args.body.summary)
        /\ \A detail \in Details :
               ret.code =
                   fromResponse(args.statusCode,
                                [summary |-> args.body.summary,
                                 detail |-> detail], NULL).code

\* 404 with the summary "Transaction of account", which contains
\* "transaction" before "account", and a detail
C25_Witness ==
    /\ fn = "fromResponse"
    /\ args.statusCode = 404
    /\ args.body.summary = TransactionAccount
    /\ args.body.detail = TryAgainIn60
    /\ ret.code = "ACCOUNT_NOT_FOUND"

(***************************************************************************)
(* C26.  getRetryAfter() is null on every classified error whose code is   *)
(* not RATE_LIMIT_EXCEEDED, even one whose detail contains "try again in N *)
(* seconds"; on a RATE_LIMIT_EXCEEDED error it is N when the detail        *)
(* contains "try again in N second" or "seconds", whatever the case of the *)
(* letters, and null otherwise.                                            *)
(***************************************************************************)
C26_RetryAfter ==
    fn = "getRetryAfter" =>
        /\ args.code # "RATE_LIMIT_EXCEEDED" => ret = NULL
        /\ args.code = "RATE_LIMIT_EXCEEDED" =>
               /\ args.detail = TryAgainIn60 => ret = <<60>>
               /\ args.detail = TryAgainIn5 => ret = <<5>>
               /\ args.detail \notin {TryAgainIn60, TryAgainIn5} =>
                      ret = NULL

\* a 503 error whose detail is "Please TRY again in 60 seconds": null
C26_Witness ==
    /\ fn = "getRetryAfter"
    /\ args.statusCode = 503
    /\ args.code = "SERVICE_UNAVAILABLE"
    /\ args.detail = TryAgainIn60
    /\ ret = NULL

(***************************************************************************)
(* C27.  For an attempt >= 1, calculateBackoff is min(d * attempt, max)    *)
(* when linear and min(d * 2^(attempt-1), max) when exponential; its       *)
(* result never exceeds max and is 0 when d = 0 or max = 0; for attempt 0, *)
(* d = 1000 and max = 30000 it is 0 when linear and 500 when exponential.  *)
(***************************************************************************)
C27_Backoff ==
    fn = "calculateBackoff" =>
        LET attempt == args.attemptNumber
            d == args.initialDelayMs
            max == args.maxDelayMs
            linear == d * attempt
            exponential == d * 2 ^ (attempt - 1)
        IN  /\ (attempt >= 1 /\ args.strategy = "linear") =>
                   ret = IF linear <= max THEN linear ELSE max
            /\ (attempt >= 1 /\ args.strategy = "exponential") =>
                   ret = IF exponential <= max THEN exponential ELSE max
            /\ ret <= max
            /\ (d = 0 \/ max = 0) => ret = 0
            /\ (attempt = 0 /\ d = 1000 /\ max = 30000) =>
                   ret = IF args.strategy = "linear" THEN 0 ELSE 500

\* the sixth exponential attempt from 1000: 32000, capped at 30000
C27_Witness ==
    /\ fn = "calculateBackoff"
    /\ args.attemptNumber = 6
    /\ args.strategy = "exponential"
    /\ args.initialDelayMs = 1000
    /\ args.maxDelayMs = 30000
    /\ ret = 30000

(***************************************************************************)
(* C28.  parseRateLimitHeaders returns undefined, not an empty object,     *)
(* when none of the six headers is there with an integer value; a header   *)
(* whose value is not a number leaves its own field undefined and no       *)
(* other; the value "0" gives the number 0, not an undefined field; a      *)
(* group is left out when its three fields are undefined.                  *)
(***************************************************************************)
\* the number a header value of the examples stands for, NULL for none
C28_Number(v) ==
    CASE v = <<"0">> -> <<0>>
      [] v = <<"1", "2">> -> <<12>>
      [] OTHER -> NULL

\* the field header name gives
C28_Field(headers, name) ==
    IF name \in DOMAIN headers THEN C28_Number(headers[name]) ELSE NULL

C28_Group(headers, prefix) ==
    [limit |-> C28_Field(headers, prefix \o "limit"),
     remaining |-> C28_Field(headers, prefix \o "remaining"),
     reset |-> C28_Field(headers, prefix \o "reset")]

C28_Omitted(group) ==
    group.limit = NULL /\ group.remaining = NULL /\ group.reset = NULL

C29_Calls(step, list) ==
    [i \in 1..Len(list) |-> Step(step, list[i], SubSeq(list, 1, i - 1))]

C29_UpToSend ==
    <<TokenStep>> \o C29_Calls("requestInterceptor", requestInterceptors)
        \o <<SendStep>>

C29_UpToResponse ==
    C29_UpToSend \o C29_Calls("responseInterceptor", responseInterceptors)

IsPrefix(xs, ys) == Len(xs) <= Len(ys) /\ xs = SubSeq(ys, 1, Len(xs))

\* the current attempt has been answered by a response
C29_Answered ==
    Len(exchanges) = attemptNumber + 1 /\ Response # NoResponse

\* the current attempt has done all it does
C29_AttemptOver ==
    C29_Answered /\ pc \in {"decoding", "returned", "sleeping", "raised"}

\* the steps of the current attempt follow the order ending with last
C29_Follows(last) ==
    /\ ~C29_Answered => IsPrefix(steps, C29_UpToSend)
    /\ C29_Answered =>
           /\ IsPrefix(steps, C29_UpToResponse \o last)
           /\ Len(steps) > Len(C29_UpToSend)
    /\ C29_AttemptOver => steps = C29_UpToResponse \o last

C29_StepsInOrder ==
    C29_Follows(IF C29_Answered /\ Response \in ErrorResponses
                THEN <<DecodeStep, RecordStep>>
                ELSE <<RecordStep, DecodeStep>>)

\* the order with the snapshot recorded before the body is decoded in
\* every attempt
C29_RecordBeforeDecode == C29_Follows(<<RecordStep, DecodeStep>>)

\* two request and two response interceptors, a request answered 429 and
\* then 200: the steps of the second attempt
C29_Witness ==
    /\ requestInterceptors = <<"r1", "r2">>
    /\ responseInterceptors = <<"s1", "s2">>
    /\ StatusesOf(exchanges) = <<429, 200>>
    /\ attemptNumber = 1
    /\ pc = "returned"
    /\ steps = <<Step("token", "", <<>>),
                 Step("requestInterceptor", "r1", <<>>),
                 Step("requestInterceptor", "r2", <<"r1">>),
                 Step("send", "", <<>>),
                 Step("responseInterceptor", "s1", <<>>),
                 Step("responseInterceptor", "s2", <<"s1">>),
                 Step("record", "", <<>>),
                 Step("decode", "", <<>>)>>
    /\ config = <<"r1", "r2">>
    /\ modifiedResponse = <<"s1", "s2">>

(***************************************************************************)
(* C30.  While clear() is never called, whenever a token network call      *)
(* (mint or refresh) is outstanding the in-flight marker is not null, the  *)
(* window in which the fallback mint after a refresh 401 is outstanding    *)
(* included, so that a getAccessToken() call made then that needs a mint   *)
(* or a refresh issues no network call.                                    *)
(***************************************************************************)
C30_MarkerWhileOutstanding ==
    /\ [](Outstanding # {} => refreshPromise # NoPromise)
    /\ [][(Outstanding # {} /\ Calling # {}) => Len(ops') = Len(ops)]_vars

(***************************************************************************)
(* C32.  Coalescing is shared between the two kinds of operation: a        *)
(* getAccessToken() call that takes the mint path while a refresh call is  *)
(* in flight, or the refresh path while a mint call is in flight, issues   *)
(* no network call and awaits an operation already in flight.              *)
(***************************************************************************)
C32_SharedCoalescing ==
    [][\A c \in Calling :
          LET path == choosePath(tokens, now)
              other == IF path = "mint" THEN "refresh" ELSE "mint"
          IN  (path # "cached" /\ \E i \in InFlight : ops[i].kind = other)
                  => /\ Len(ops') = Len(ops)
                     /\ callers'[c].state = "waiting"
                     /\ Root(callers'[c].op) \in InFlight]_vars

(***************************************************************************)
(* C36.  Under any interleaving of getAccessToken() and clear() calls the  *)
(* stored tokens are null or a complete pair: accessToken,                 *)
(* accessExpiresAt, refreshToken and refreshExpiresAt are all defined.     *)
(***************************************************************************)
C36_CompletePair ==
    tokens # NULL =>
        /\ tokens[1].accessToken # Undefined
        /\ tokens[1].accessExpiresAt # Undefined
        /\ tokens[1].refreshToken # Undefined
        /\ tokens[1].refreshExpiresAt # Undefined

(***************************************************************************)
(* C37.  When operation A settles while the in-flight marker refers to     *)
(* another operation B that is still in flight (B was started after a      *)
(* clear() made while A was in flight), the marker still refers to B       *)
(* afterwards, so that a later caller coalesces onto B.                    *)
(***************************************************************************)
C37_MarkerOfLaterOperation ==
    [][\A a \in Ids, b \in Ids :
          (a # b /\ Settles(a) /\ refreshPromise = b /\ b \in InFlight)
              => refreshPromise' = b]_vars

(***************************************************************************)
(* C38.  Provided every token network call settles, every getAccessToken() *)
(* call resolves or rejects, under any interleaving of getAccessToken()    *)
(* and clear() calls and any network outcomes: no caller waits forever;    *)
(* and whenever no token operation is in flight (no call is unanswered and *)
(* no error body is being read) the in-flight marker is null.              *)
(***************************************************************************)
C38_EveryCallSettles ==
    /\ \A c \in Callers :
          (callers[c].state = "waiting") ~> (callers[c].state # "waiting")
    /\ [](\A c \in Callers :
             callers[c].state = "waiting" => Root(callers[c].op) \in InFlight)
    /\ [](InFlight = {} => refreshPromise = NoPromise)

\* both callers have settled, one resolved and one rejected, after a
\* clear() made while a refresh was in flight (the stored tokens have the
\* access fields only), and nothing is in flight
C38_Witness ==
    /\ InFlight = {}
    /\ refreshPromise = NoPromise
    /\ tokens # NULL
    /\ tokens[1].refreshToken = Undefined
    /\ \E c \in Callers : callers[c].state = "resolved" /\ ~callers[c].cached
    /\ \E c \in Callers : callers[c].state = "rejected"

(***************************************************************************)
(* C39.  When a refresh is answered 401 and the fallback mint then fails,  *)
(* every caller awaiting that refresh (the one that started it and those   *)
(* coalesced onto it) is rejected with the error of the mint, not with the *)
(* 401 of the refresh; neither the 401 answer nor the failure of the mint  *)
(* changes the stored pair; the failure leaves the marker null; and a      *)
(* getAccessToken() call that finds the marker null and needs a token      *)
(* issues a network call.                                                  *)
(***************************************************************************)
\* refresh r is answered 401 in this step
C39_Unauthorized(r) == ops[r].state = "sent" /\ ops'[r].state = "chained"

\* mint m is the fallback of refresh r
C39_FallbackOf(r, m) == ops[r].state = "chained" /\ ops[r].next = m

C39_FallbackMintFails ==
    [][/\ \A r \in Ids :
             C39_Unauthorized(r) => tokens' = tokens /\ callers' = callers
       /\ \A r \in Ids, m \in Ids :
             (C39_FallbackOf(r, m) /\ Fails(m)) =>
                 /\ tokens' = tokens
                 /\ refreshPromise' = NoPromise
                 /\ \A c \in Awaiting(r) \cup Awaiting(m) :
                       /\ callers'[c].state = "rejected"
                       /\ callers'[c].err \in ErrorOf(m)
                       /\ ops[m].state = "parsing" =>
                              callers'[c].err.statusCode = ops[m].status
       /\ (Calling # {} /\ refreshPromise = NoPromise
           /\ choosePath(tokens, now) # "cached")
              => Len(ops') = Len(ops) + 1]_vars

\* the pair of the first mint is still stored, its refresh was answered
\* 401, the fallback mint has failed with 500, and both callers, which
\* awaited the refresh, are rejected with that 500
C39_Witness ==
    /\ Len(ops) = 3
    /\ ops[2].state = "chained" /\ ops[2].status = 401 /\ ops[2].next = 3
    /\ ops[3].state = "settled"
    /\ refreshPromise = NoPromise
    /\ tokens # NULL /\ tokens[1].accessToken = AccessOf(1)
    /\ \A c \in Callers :
          callers[c].state = "rejected" /\ callers[c].err.statusCode = 500

(***************************************************************************)
(* C33.  The retry-after hint is used for status 429 only: when a retried  *)
(* answer has another retryable status (503 with retryableStatusCodes =    *)
(* {429, 503}) and its detail holds "try again in N seconds", the sleep    *)
(* before the k-th retry is calculateBackoff(k, ...), not N * 1000 and not *)
(* N * 1000 capped at maxDelayMs, respectRetryAfter being true or false.   *)
(***************************************************************************)
\* the answer has another status than 429 and its detail holds the hint
C33_HintOutside429(r) ==
    r.status # 429 /\ r.json /\ r.body.detail \in {TryAgainIn60, TryAgainIn5}

C33_HintOnlyFor429 ==
    \A k \in 1..Len(sleeps) :
        C33_HintOutside429(exchanges[k]) =>
            /\ matchTryAgain(bodyOf(exchanges[k]).detail) # NULL
            /\ sleeps[k] = calculateBackoff(k, retryConfig.backoff,
                                            retryConfig.initialDelayMs,
                                            retryConfig.maxDelayMs)
            /\ sleeps[k] # HintSeconds(exchanges[k]) * 1000
            /\ sleeps[k] # Min(HintSeconds(exchanges[k]) * 1000,
                               retryConfig.maxDelayMs)

\* 503 "try again in 60 seconds" retried with respectRetryAfter = true:
\* one sleep of 1000
C33_Witness ==
    /\ retryConfig.respectRetryAfter
    /\ retryConfig.retryableStatusCodes = {429, 503}
    /\ Len(exchanges) >= 1
    /\ exchanges[1].status = 503
    /\ C33_HintOutside429(exchanges[1])
    /\ exchanges[1].body.detail = TryAgainIn60
    /\ sleeps = <<1000>>

(***************************************************************************)
(* C34.  In one request the number of sleeps is the number of underlying   *)
(* calls minus one: one sleep between two consecutive attempts, none       *)
(* before the first attempt, none after the attempt whose error is raised  *)
(* or whose body is returned.                                              *)
(***************************************************************************)
C34_SleepsBetweenAttempts ==
    /\ pc = "sleeping" => Len(sleeps) = callsMade
    /\ (pc \notin {"idle", "sleeping"} /\ ~(Done /\ exchanges = <<>>)) =>
           Len(sleeps) = attemptNumber
    /\ (pc \in {"auth", "requestInterceptor"}) =>
           callsMade = attemptNumber /\ Len(sleeps) = callsMade
    /\ (pc \in {"sent", "responseInterceptor", "decoding", "parsing"}) =>
           callsMade = attemptNumber + 1 /\ Len(sleeps) = callsMade - 1
    /\ (Done /\ exchanges # <<>>) => Len(sleeps) = callsMade - 1

\* three calls and two sleeps, the error of the third answer raised
C34_Witness ==
    /\ Done
    /\ callsMade = 3
    /\ Len(sleeps) = 2
    /\ pc = "raised"
    /\ Response \in ErrorResponses

(***************************************************************************)
(* C31.  The executor asks the manager for a token once for every attempt, *)
(* retries included, when the attempt begins and before it is sent; the    *)
(* underlying call is sent only once that getAccessToken() call has        *)
(* resolved, and its Authorization header carries the token that call      *)
(* resolved with (no interceptor being registered), so that the token of a *)
(* refresh made between two attempts is the one the later attempt carries. *)
(***************************************************************************)
\* the hook calls getAccessToken() in this step
C31_HookAsks ==
    callers[HookCaller].state = "idle" /\ callers'[HookCaller].state # "idle"

\* an attempt of the request begins in this step
C31_AttemptBegins == pc # "auth" /\ pc' = "auth"

\* an underlying call is sent in this step
C31_Sends == sent' # sent /\ sent' # <<>>

C31_TokenPerAttempt ==
    /\ [][C31_AttemptBegins <=> C31_HookAsks]_<<vars, xvars>>
    /\ [][C31_Sends =>
             /\ pc = "auth"
             /\ callers[HookCaller].state = "resolved"
             /\ sent' = Append(sent, callers[HookCaller].value)
             /\ authorization' = callers[HookCaller].value]_<<vars, xvars>>
    /\ [](Len(sent) = callsMade)
    /\ [](pc = "auth" <=> callers[HookCaller].state # "idle")
    /\ [](sent # <<>> => authorization = sent[Len(sent)])

\* the first attempt carried the token of the mint, was answered 429, and
\* the second attempt carries the token of the refresh made in between,
\* which is the stored one
C31_Witness ==
    /\ Len(sent) = 2
    /\ Len(exchanges) >= 1
    /\ exchanges[1].status = 429
    /\ sent[1] = AccessOf(1)
    /\ sent[2] = AccessOf(2)
    /\ sent[1] # sent[2]
    /\ tokens # NULL
    /\ tokens[1].accessToken = sent[2]
    /\ tokens[1].refreshToken = RefreshOf(1)

(***************************************************************************)
(* C35.  When the getAccessToken() call of an attempt rejects (a mint      *)
(* failure, or a refresh failure other than 401), the executor raises that *)
(* very error as its next step: no underlying call is sent for the         *)
(* attempt, there is no sleep and no retry, although the status of the     *)
(* token endpoint is in retryableStatusCodes and attempts remain.          *)
(***************************************************************************)
\* the getAccessToken() call of the attempt has rejected
C35_TokenFailure == pc = "auth" /\ callers[HookCaller].state = "rejected"

C35_TokenFailureRaised ==
    [][(C35_TokenFailure /\ xvars' # xvars) =>
          /\ pc' = "raised"
          /\ result' = Raised(callers[HookCaller].err)
          /\ sent' = sent
          /\ exchanges' = exchanges
          /\ sleeps' = sleeps
          /\ attemptNumber' = attemptNumber]_<<vars, xvars>>

\* the first attempt was answered 429 and slept on; the token call of the
\* second attempt failed with 500, a retryable status, with one retry left:
\* the request has raised that error after one call and one sleep
C35_Witness ==
    /\ pc = "raised"
    /\ result.err.kind = "api"
    /\ result.err.statusCode = 500
    /\ 500 \in retryConfig.retryableStatusCodes
    /\ attemptNumber = 1
    /\ attemptNumber < retryConfig.maxRetries
    /\ StatusesOf(exchanges) = <<429>>
    /\ Len(sent) = 1
    /\ Len(sleeps) = 1
====
